---------------------------- MODULE Spec2Model ----------------------------
(*
  Model of the AI-enhanced multi-agent coffee shop:
    src/src/ai/AIDecisionEngine.ts      AIDecisionEngine (the decision engine, the order-frequency tracker)
    src/unnamed/part_001                 ApprovalAgent    (the spend ledger, the Approval stage)
    src/unnamed/part_002                 ReceptionAgent   (the Reception stage)
    src/src/agents/PaymentAgent.ts      PaymentAgent     (the Payment stage)
    src/src/agents/AgentOrchestrator.ts AgentOrchestrator.processOrderWithAI

  Units.  Money is counted in hundredths of a USDT (1.0 USDT = 100), and sums
  and comparisons of money are exact.  Time is counted in half hours
  (Date.now() / 1800000).  Step weights are hundredths (0.8 = 80).  The
  confidence arithmetic is done on JavaScript numbers, that is IEEE-754
  doubles, and is modelled as such: see the section "doubles".
*)
EXTENDS Integers, Sequences, FiniteSets, TLC

----------------------------------------------------------------------------
(* doubles.
   A non-negative double is held as an exact fixed-point number <<hi, lo>>
   of value (hi * 2^30 + lo) * 2^-n, n being 55 for the weights, scores and
   their sums (all in [0, 8)) and 59 for the confidence (in [0, 1]).  Every
   double this model meets is a multiple of its unit, so the representation
   is exact, and an operation is the exact result rounded to 53 significant
   bits, ties to even, as IEEE-754 prescribes. *)

Limb == 2^30

N2(hi, lo) == <<hi, lo>>

Zero2 == N2(0, 0)

Add2(a, b) ==
  LET lo == a[2] + b[2]
  IN  N2(a[1] + b[1] + (lo \div Limb), lo % Limb)

\* a - b, for a >= b
Sub2(a, b) ==
  LET borrow == IF a[2] < b[2] THEN 1 ELSE 0
  IN  N2(a[1] - b[1] - borrow, (a[2] + (borrow * Limb)) - b[2])

Geq2(a, b) == a[1] > b[1] \/ (a[1] = b[1] /\ a[2] >= b[2])

Lt2(a, b) == ~Geq2(a, b)

\* a / 2, for an even a
Half2(a) == N2(a[1] \div 2, (a[2] \div 2) + ((a[1] % 2) * (Limb \div 2)))

\* the number of bits of a limb: 0 for 0, j for 2^(j-1) <= x < 2^j
BitLen(x) == CHOOSE j \in 0..30 : IF j = 0 THEN x = 0 ELSE 2^(j-1) <= x /\ x < 2^j

BitLen2(a) == IF a[1] > 0 THEN 30 + BitLen(a[1]) ELSE BitLen(a[2])

\* a rounded to 53 significant bits, ties to even; sticky says that the
\* exact value lies strictly above a (bits below the unit were cut off).
\* At most 7 bits are dropped, so only the low limb is looked at.
Round53(a, sticky) ==
  LET d    == BitLen2(a) - 53
      g    == 2^d
      r    == a[2] % g
      odd  == (a[2] \div g) % 2 = 1
      up   == \/ 2 * r > g
              \/ 2 * r = g /\ (sticky \/ odd)
      down == Sub2(a, N2(0, r))
  IN  IF d <= 0 THEN a
      ELSE IF up THEN Add2(down, N2(0, g)) ELSE down

\* the double nearest to a + b
FAdd(a, b) == Round53(Add2(a, b), FALSE)

\* restoring division, one quotient bit: qr = <<quotient, remainder>>
DivBit(qr, w) ==
  LET r2  == Add2(qr[2], qr[2])
      bit == Geq2(r2, w)
  IN  <<Add2(Add2(qr[1], qr[1]), N2(0, IF bit THEN 1 ELSE 0)),
        IF bit THEN Sub2(r2, w) ELSE r2>>

\* n more quotient bits.  The n steps are split in halves, and the first
\* half is bound as a value before the second starts, which keeps the
\* evaluation shallow.
RECURSIVE DivBits(_, _, _)
DivBits(qr, w, n) ==
  IF n = 0 THEN qr
  ELSE IF n = 1 THEN DivBit(qr, w)
  ELSE CHOOSE out \in { DivBits(half, w, n - (n \div 2)) :
                          half \in { DivBits(qr, w, n \div 2) } } : TRUE

\* the double nearest to s / w in units of 2^-n, for 0 <= s <= w, w > 0
FDiv(s, w, n) ==
  LET q0 == IF Geq2(s, w) THEN 1 ELSE 0
      qr == DivBits(<<N2(0, q0), IF q0 = 1 THEN Sub2(s, w) ELSE s>>, w, n)
  IN  Round53(qr[1], qr[2] # Zero2)

\* a decimal literal of h hundredths (0.8 is 80) as a double, units of 2^-n
Literal(h, n) == FDiv(N2(0, h), N2(0, 100), n)

\* the weights and score factors of the engine, as doubles in units of 2^-55
Dbl == [h \in {30, 50, 70, 80, 90, 100} |-> Literal(h, 55)]

\* floor(a / 2^k)
Shr2(a, k) ==
  IF k >= 30 THEN N2(0, a[1] \div 2^(k - 30))
  ELSE N2(a[1] \div 2^k, (a[2] \div 2^k) + ((a[1] % 2^k) * 2^(30 - k)))

\* a * 2^k, for a result below 2^60
Shl2(a, k) ==
  IF k >= 30 THEN N2(a[2] * 2^(k - 30), 0)
  ELSE N2((a[1] * 2^k) + (a[2] \div 2^(30 - k)), (a[2] % 2^(30 - k)) * 2^k)

\* a scaling by 2^7 in the place of the scaling by 100
Times128(m) == Shl2(m, 7)

Times100(m) == Add2(Add2(Shl2(m, 6), Shl2(m, 5)), Shl2(m, 2))

\* Math.round(c * 100) for a double c in [0, 1] given in units of 2^-59:
\* the product is rounded to a double first, then to the nearest integer,
\* ties upwards.
RoundTimes100(c) ==
  IF c = Zero2 THEN 0
  ELSE LET len == BitLen2(c)
           d   == IF len > 53 THEN len - 53 ELSE 0
           m   == Shr2(c, d)                     \* c = m * 2^(d - 59)
           p   == Round53(Times100(m), FALSE)    \* c * 100 = p * 2^(d - 59)
           s   == 59 - d
           x   == Add2(p, Shl2(N2(0, 1), s - 1)) \* + 0.5
       IN  Shr2(x, s)[2]

----------------------------------------------------------------------------
(* The decision engine: src/src/ai/AIDecisionEngine.ts *)

\* DEFAULT_CONFIG; the orchestrator passes maxSinglePayment and
\* maxDailySpending of its own configuration, whose defaults are the same.
DEFAULT_CONFIG ==
  [ maxSinglePayment     |-> 100,
    maxDailySpending     |-> 1000,
    maxOrdersPerHour     |-> 10,
    minAgentBalance      |-> 50,
    autoApproveThreshold |-> 80,
    autoRejectThreshold  |-> 30,
    businessHoursStart   |-> 6,
    businessHoursEnd     |-> 23 ]

\* the tracking window of recordOrder and getRecentOrderCount:
\* 60 * 60 * 1000 ms, two half hours
HOUR == 2

Step(check, result, weight) == [check |-> check, result |-> result, weight |-> weight]

\* a faulty checkIntent, which only warns about a cancellation; C30 must
\* tell it from checkIntent
checkIntentCancelWarns(context) ==
  IF context.intent = "cancel_order"
    THEN Step("Intent Validation", "warn", 80)
  ELSE IF context.intent = "bulk_order" /\ context.quantity > 5
    THEN Step("Intent Validation", "warn", 80)
  ELSE Step("Intent Validation", "pass", 80)

checkIntent(context) ==
  IF context.intent = "cancel_order"
    THEN Step("Intent Validation", "fail", 100)
  ELSE IF context.intent = "bulk_order" /\ context.quantity > 5
    THEN Step("Intent Validation", "warn", 80)
  ELSE Step("Intent Validation", "pass", 80)

\* an amount check without the floor at zero
checkAmountNoFloor(context, cfg) ==
  IF context.price > cfg.maxSinglePayment
    THEN Step("Amount Validation", "fail", 100)
  ELSE IF 10 * context.price > 8 * cfg.maxSinglePayment
    THEN Step("Amount Validation", "warn", 90)
  ELSE Step("Amount Validation", "pass", 90)

checkAmount(context, cfg) ==
  IF context.price <= 0
    THEN Step("Amount Validation", "fail", 100)
  ELSE IF context.price > cfg.maxSinglePayment
    THEN Step("Amount Validation", "fail", 100)
  ELSE IF 10 * context.price > 8 * cfg.maxSinglePayment
    THEN Step("Amount Validation", "warn", 90)
  ELSE Step("Amount Validation", "pass", 90)

checkDailyLimit(context, cfg) ==
  LET projectedTotal == context.totalDailySpending + context.price
  IN  IF projectedTotal > cfg.maxDailySpending
        THEN Step("Daily Limit Check", "fail", 90)
      ELSE IF 10 * projectedTotal > 9 * cfg.maxDailySpending
        THEN Step("Daily Limit Check", "warn", 70)
      ELSE Step("Daily Limit Check", "pass", 70)

checkBalance(context, cfg) ==
  LET remainingAfter == context.agentBalance - context.price
  IN  IF context.agentBalance < context.price
        THEN Step("Balance Check", "fail", 100)
      ELSE IF remainingAfter < cfg.minAgentBalance
        THEN Step("Balance Check", "warn", 80)
      ELSE Step("Balance Check", "pass", 80)

\* the step of checkOrderFrequency; its call of recordOrder is the state
\* change of the actions that evaluate
checkOrderFrequency(context, cfg) ==
  IF context.recentOrderCount >= cfg.maxOrdersPerHour
    THEN Step("Rate Limit Check", "fail", 70)
  ELSE IF 10 * context.recentOrderCount >= 7 * cfg.maxOrdersPerHour
    THEN Step("Rate Limit Check", "warn", 50)
  ELSE Step("Rate Limit Check", "pass", 50)

checkBusinessHours(context, cfg) ==
  LET hour == (context.currentTime \div HOUR) % 24
  IN  IF hour < cfg.businessHoursStart \/ hour >= cfg.businessHoursEnd
        THEN Step("Business Hours Check", "warn", 30)
      ELSE Step("Business Hours Check", "pass", 30)

\* what a step adds to totalScore; the Balance step (the 4th) adds nothing
\* unless it passes
stepScore(i, step) ==
  IF step.result = "pass" THEN Dbl[step.weight]
  ELSE IF step.result = "warn" /\ i # 4 THEN Half2(Dbl[step.weight])
  ELSE Zero2

\* totalScore and totalWeight after the first i steps, summed in the
\* order of the code
RECURSIVE totalScore(_, _)
totalScore(reasoning, i) ==
  IF i = 0 THEN Zero2
  ELSE FAdd(totalScore(reasoning, i - 1), stepScore(i, reasoning[i]))

RECURSIVE totalWeight(_, _)
totalWeight(reasoning, i) ==
  IF i = 0 THEN Zero2
  ELSE FAdd(totalWeight(reasoning, i - 1), Dbl[reasoning[i].weight])

\* totalWeight > 0 ? totalScore / totalWeight : 0, a double in units of 2^-59
rawConfidence(reasoning) ==
  LET w == totalWeight(reasoning, Len(reasoning))
  IN  IF w # Zero2 THEN FDiv(totalScore(reasoning, Len(reasoning)), w, 59) ELSE Zero2

countResult(reasoning, r) == Cardinality({i \in DOMAIN reasoning : reasoning[i].result = r})

\* a faulty assessRisk, which wants four warnings for "high"; C10 must
\* tell it from assessRisk
assessRiskLenient(reasoning, confidence) ==
  LET failCount == countResult(reasoning, "fail")
      warnCount == countResult(reasoning, "warn")
  IN  IF failCount > 0 THEN "critical"
      ELSE IF warnCount >= 4 THEN "high"
      ELSE IF warnCount >= 1 THEN "medium"
      ELSE IF Lt2(confidence, Literal(70, 59)) THEN "medium"
      ELSE "low"

\* confidence is the unrounded quotient
assessRisk(reasoning, confidence) ==
  LET failCount == countResult(reasoning, "fail")
      warnCount == countResult(reasoning, "warn")
  IN  IF failCount > 0 THEN "critical"
      ELSE IF warnCount >= 3 THEN "high"
      ELSE IF warnCount >= 1 THEN "medium"
      ELSE IF Lt2(confidence, Literal(70, 59)) THEN "medium"
      ELSE "low"

\* a faulty hasCriticalFail, for which only a weight above 0.9 is critical; C6
\* must tell it from hasCriticalFail
hasCriticalFailAbove(reasoning) ==
  \E i \in DOMAIN reasoning : reasoning[i].result = "fail" /\ reasoning[i].weight > 90

\* reasoning.some(r => r.result === 'fail' && r.weight >= 0.9)
hasCriticalFail(reasoning) ==
  \E i \in DOMAIN reasoning : reasoning[i].result = "fail" /\ reasoning[i].weight >= 90

\* confidence is the unrounded quotient
makeDecision(reasoning, confidence, context, cfg) ==
  IF hasCriticalFail(reasoning) THEN "reject"
  ELSE IF context.intent = "cancel_order" THEN "reject"
  ELSE IF Geq2(confidence, Literal(cfg.autoApproveThreshold, 59)) THEN "approve"
  ELSE IF Lt2(confidence, Literal(cfg.autoRejectThreshold, 59)) THEN "reject"
  ELSE IF countResult(reasoning, "warn") >= 2 THEN "confirm"
  ELSE "approve"

suggestionOf(step) ==
  IF step.check = "Amount Validation" THEN <<"Try a smaller order amount">>
  ELSE IF step.check = "Daily Limit Check" THEN <<"Wait until tomorrow for daily limit reset">>
  ELSE IF step.check = "Balance Check" THEN <<"Fund the payment agent with more USDT">>
  ELSE IF step.check = "Rate Limit Check" THEN <<"Wait a few minutes before ordering again">>
  ELSE << >>

RECURSIVE suggestionsUpTo(_, _)
suggestionsUpTo(reasoning, i) ==
  IF i = 0 THEN << >>
  ELSE suggestionsUpTo(reasoning, i - 1)
         \o (IF reasoning[i].result = "fail" THEN suggestionOf(reasoning[i]) ELSE << >>)

\* [...new Set(suggestions)]: the first occurrence of every string, in order
RECURSIVE Dedupe(_)
Dedupe(suggestions) ==
  IF suggestions = << >> THEN << >>
  ELSE LET front == Dedupe(SubSeq(suggestions, 1, Len(suggestions) - 1))
           last  == suggestions[Len(suggestions)]
       IN  IF \E i \in DOMAIN front : front[i] = last THEN front ELSE Append(front, last)

generateSuggestions(decision, reasoning) ==
  IF decision = "approve" THEN << >>
  ELSE Dedupe(suggestionsUpTo(reasoning, Len(reasoning)))

\* the six checks in the order evaluate runs them
reasoningOf(context, cfg) ==
  << checkIntent(context), checkAmount(context, cfg), checkDailyLimit(context, cfg),
     checkBalance(context, cfg), checkOrderFrequency(context, cfg),
     checkBusinessHours(context, cfg) >>

\* the AIDecisionResult evaluate builds; confidence is
\* Math.round(confidence * 100), that is the returned confidence in hundredths
decisionResult(reasoning, confidence, context, cfg) ==
  LET decision == makeDecision(reasoning, confidence, context, cfg)
  IN  [ decision    |-> decision,
        confidence  |-> RoundTimes100(confidence),
        riskLevel   |-> assessRisk(reasoning, confidence),
        reasoning   |-> reasoning,
        suggestions |-> generateSuggestions(decision, reasoning) ]

evaluate(context, cfg) ==
  CHOOSE result \in
    UNION { { decisionResult(reasoning, confidence, context, cfg) :
                confidence \in { rawConfidence(reasoning) } } :
            reasoning \in { reasoningOf(context, cfg) } } : TRUE

\* a window that takes in the entry that is exactly one hour old
RecentOfInclusive(history, t) == SelectSeq(history, LAMBDA x : x >= t - HOUR)

\* history.filter(t => t > oneHourAgo)
RecentOf(history, t) == SelectSeq(history, LAMBDA x : x > t - HOUR)

\* a faulty recordOrder, which does not register an attempt of an identity
\* that has reached ten attempts within the hour; C34 must tell it from
\* recordOrder
recordOrderUnlessFull(history, userAddress, t) ==
  [history EXCEPT ![userAddress] =
     IF Len(RecentOf(@, t)) >= 10 THEN RecentOf(@, t) ELSE Append(RecentOf(@, t), t)]

\* orderHistory after recordOrder(userAddress) at time t
recordOrder(history, userAddress, t) ==
  [history EXCEPT ![userAddress] = Append(RecentOf(@, t), t)]

getRecentOrderCount(history, userAddress, t) == Len(RecentOf(history[userAddress], t))

----------------------------------------------------------------------------
(* The spend ledger and the Approval stage: src/unnamed/part_001;
   the Reception stage: src/unnamed/part_002;
   the Payment stage: src/src/agents/PaymentAgent.ts *)

\* DAY_IN_MS = 24 * 60 * 60 * 1000
DAY == 24 * HOUR

\* the ApprovalPolicy the orchestrator builds from getMultiAgentConfig()
POLICY ==
  [ approvalThreshold |-> 50,
    maxSinglePayment  |-> 100,
    maxDailySpending  |-> 1000 ]

\* a window that decays: at its end half of the amount is kept
checkAndResetDecaying(l, t) ==
  IF t - l.lastResetTime >= DAY
    THEN [dailySpending |-> l.dailySpending \div 2, lastResetTime |-> t]
    ELSE l

\* a window that slides: every snapshot restarts it
checkAndResetSliding(l, t) ==
  IF t - l.lastResetTime >= DAY
    THEN [dailySpending |-> 0, lastResetTime |-> t]
    ELSE [l EXCEPT !.lastResetTime = t]

\* l is [dailySpending, lastResetTime], t is Date.now()
checkAndResetDailySpending(l, t) ==
  IF t - l.lastResetTime >= DAY
    THEN [dailySpending |-> 0, lastResetTime |-> t]
    ELSE l

\* the ledger after recordSpending(amount)
recordSpending(l, amount, t) ==
  [checkAndResetDailySpending(l, t) EXCEPT !.dailySpending = @ + amount]

\* an evaluation that knows the daily limit only
evaluateOrderDailyOnly(l, amount, policy) ==
  IF l.dailySpending + amount > policy.maxDailySpending
    THEN [approved |-> FALSE, reason |-> "would exceed daily spending limit"]
  ELSE [approved |-> TRUE, reason |-> ""]

\* a faulty evaluateOrder, whose ceiling is twice the policy's; C36 must tell
\* it from evaluateOrder
evaluateOrderDoubleCeiling(l, amount, policy) ==
  IF amount > 2 * policy.maxSinglePayment
    THEN [approved |-> FALSE, reason |-> "exceeds maximum single payment limit"]
  ELSE IF l.dailySpending + amount > policy.maxDailySpending
    THEN [approved |-> FALSE, reason |-> "would exceed daily spending limit"]
  ELSE [approved |-> TRUE, reason |-> ""]

\* evaluateOrder's verdict on the ledger l as checkAndResetDailySpending left it
evaluateOrder(l, amount, policy) ==
  IF amount > policy.maxSinglePayment
    THEN [approved |-> FALSE, reason |-> "exceeds maximum single payment limit"]
  ELSE IF l.dailySpending + amount > policy.maxDailySpending
    THEN [approved |-> FALSE, reason |-> "would exceed daily spending limit"]
  ELSE [approved |-> TRUE, reason |-> ""]

\* an address is a sequence of characters
StartsWith0x(a) == Len(a) >= 2 /\ a[1] = "0" /\ a[2] = "x"

\* !s || s.trim() === ''
IsBlank(s) == \A i \in DOMAIN s : s[i] = " "

\* a faulty validateOrder, which accepts every currency; C27 must tell it
\* from validateOrder
validateOrderAnyCurrency(order) ==
  IF IsBlank(order.item)
    THEN [valid |-> FALSE, reason |-> "Order item is required"]
  ELSE IF order.price <= 0
    THEN [valid |-> FALSE, reason |-> "Order price must be a positive number"]
  ELSE IF ~StartsWith0x(order.userAddress)
    THEN [valid |-> FALSE, reason |-> "Valid user address is required"]
  ELSE IF ~StartsWith0x(order.merchantAddress)
    THEN [valid |-> FALSE, reason |-> "Valid merchant address is required"]
  ELSE [valid |-> TRUE, reason |-> ""]

\* ReceptionAgent.validateOrder
validateOrder(order) ==
  IF IsBlank(order.item)
    THEN [valid |-> FALSE, reason |-> "Order item is required"]
  ELSE IF order.price <= 0
    THEN [valid |-> FALSE, reason |-> "Order price must be a positive number"]
  ELSE IF order.currency # "USDT"
    THEN [valid |-> FALSE, reason |-> "Only USDT payments are accepted"]
  ELSE IF ~StartsWith0x(order.userAddress)
    THEN [valid |-> FALSE, reason |-> "Valid user address is required"]
  ELSE IF ~StartsWith0x(order.merchantAddress)
    THEN [valid |-> FALSE, reason |-> "Valid merchant address is required"]
  ELSE [valid |-> TRUE, reason |-> ""]

\* an AgentStepRecord; result "none" stands for a stage record that is absent
StepRecord(result, message, signature, txHash) ==
  [result |-> result, message |-> message, signature |-> signature, txHash |-> txHash]

NoRecord == StepRecord("none", "", FALSE, "")

\* message.status = st, with the statuses the run went through kept in trace
SetStatus(message, st) ==
  [message EXCEPT !.status = st, !.trace = Append(@, st)]

\* the AgentMessage processOrderWithAI creates
NewMessage(order) ==
  [ order         |-> order,
    status        |-> "received",
    trace         |-> <<"received">>,
    previousAgent |-> "none",
    error         |-> "",
    reception     |-> NoRecord,
    approval      |-> NoRecord,
    payment       |-> NoRecord ]

\* ReceptionAgent.process up to its await of signMessage, or to its return
\* when the order is malformed
receptionBegin(message) ==
  LET m          == SetStatus(message, "validating")
      validation == validateOrder(m.order)
  IN  IF ~validation.valid
        THEN [SetStatus(m, "rejected") EXCEPT
                !.error = validation.reason,
                !.reception = StepRecord("fail", validation.reason, FALSE, "")]
        ELSE m

\* a faulty receptionEnd, which hands the run on without its step record; C4
\* must tell it from receptionEnd
receptionEndUnrecorded(message) ==
  [SetStatus(message, "pending_approval") EXCEPT !.previousAgent = "reception"]

\* ReceptionAgent.process after signMessage returned
receptionEnd(message) ==
  [SetStatus(message, "pending_approval") EXCEPT
     !.reception = StepRecord("pass", "Order validated successfully", TRUE, ""),
     !.previousAgent = "reception"]

\* ApprovalAgent.process up to its await of signMessage, or to its return
\* when it rejects; l is the ledger after checkAndResetDailySpending
approvalBegin(message, l, policy) ==
  IF message.previousAgent # "reception"
    THEN [SetStatus(message, "rejected") EXCEPT
            !.error = "Invalid processing pipeline",
            !.approval = StepRecord("rejected", "Invalid pipeline", FALSE, "")]
  ELSE LET evaluation == evaluateOrder(l, message.order.price, policy)
       IN  IF ~evaluation.approved
             THEN [SetStatus(message, "rejected") EXCEPT
                     !.error = evaluation.reason,
                     !.approval = StepRecord("rejected", evaluation.reason, FALSE, "")]
             ELSE message

\* an Approval stage that takes its snapshot of the ledger before it looks
\* at the run
approvalReadsAlways(message) == TRUE

\* does ApprovalAgent.process read the ledger (call evaluateOrder)?
approvalReadsLedger(message) == message.previousAgent = "reception"

\* an Approval stage that hands the run on without its step record
approvalEndUnrecorded(message) ==
  [SetStatus(message, "approved") EXCEPT !.previousAgent = "approval"]

\* ApprovalAgent.process after signMessage returned
approvalEnd(message) ==
  [SetStatus(message, "approved") EXCEPT
     !.approval = StepRecord("approved", "Order approved", TRUE, ""),
     !.previousAgent = "approval"]

\* PaymentAgent.process up to its call of executeTransfer, or to its return
\* when it refuses the run
paymentBegin(message) ==
  IF message.previousAgent # "approval"
    THEN [SetStatus(message, "failed") EXCEPT
            !.error = "Invalid processing pipeline",
            !.payment = StepRecord("failed", "Invalid pipeline", FALSE, "")]
  ELSE IF message.status # "approved"
    THEN [SetStatus(message, "failed") EXCEPT
            !.error = "Order not approved",
            !.payment = StepRecord("failed", "Order not approved", FALSE, "")]
  ELSE SetStatus(message, "processing")

\* does PaymentAgent.process call executeTransfer?
paymentTransfers(message) ==
  message.previousAgent = "approval" /\ message.status = "approved"

\* a Payment stage that never takes a transfer for confirmed
paymentSignsNever(transferResult) == FALSE

\* transferResult.success && transferResult.txHash
paymentSigns(transferResult) == transferResult.success /\ transferResult.txHash # ""

\* the stepRecord PaymentAgent.process builds from the transfer's result
paymentRecord(transferResult, signature) ==
  StepRecord(IF transferResult.success THEN "success" ELSE "failed",
             IF transferResult.success THEN "Payment completed" ELSE transferResult.error,
             signature,
             IF paymentSigns(transferResult) THEN transferResult.txHash ELSE "")

\* a Payment stage that reports a reason of its own for every failed transfer
paymentFailedGeneric(message, transferResult) ==
  [SetStatus(message, "failed") EXCEPT
     !.error = "Payment failed",
     !.payment = StepRecord("failed", "Payment failed", FALSE, ""),
     !.previousAgent = "payment"]

\* PaymentAgent.process after a transfer it does not sign for
paymentFailed(message, transferResult) ==
  [SetStatus(message, "failed") EXCEPT
     !.error = transferResult.error,
     !.payment = paymentRecord(transferResult, FALSE),
     !.previousAgent = "payment"]

\* PaymentAgent.process after signMessage returned
paymentEnd(message, transferResult) ==
  [SetStatus(message, "completed") EXCEPT
     !.payment = paymentRecord(transferResult, TRUE),
     !.previousAgent = "payment"]

\* a faulty catch clause, which notes the error and leaves the status the
\* stage had reached; C31 must tell it from pipelineError
pipelineErrorKeepsStatus(message, reason) ==
  [message EXCEPT !.error = reason]

\* the catch clause of processOrderWithAI
pipelineError(message, reason) ==
  [SetStatus(message, "failed") EXCEPT !.error = reason]

----------------------------------------------------------------------------
(* The orchestrator: src/src/agents/AgentOrchestrator.ts.  Every call of
   processOrderWithAI is a run; a run gives up the thread at its awaits of
   the network (the balance query, the transfer) and of the signer, and
   other runs may take their steps there. *)

VARIABLES
  now,            \* Date.now(), in half hours
  ticks,          \* how many times the clock has advanced
  isInitialized,  \* AgentOrchestrator.isInitialized
  config,         \* AIDecisionEngine.config
  ledger,         \* ApprovalAgent.dailySpending and lastResetTime
  orderHistory,   \* AIDecisionEngine.orderHistory
  attempts,       \* every time recordOrder was called with, by identity
  run,            \* the calls of processOrderWithAI
  preview         \* an evaluation context and the result evaluate gave for it

vars == <<now, ticks, isInitialized, config, ledger, orderHistory, attempts, run, preview>>

\* the concurrent calls of processOrderWithAI
Procs == {"order_1", "order_2"}

\* the clock advances at most MaxTicks times
MaxTicks == 1

\* the hour at which the server is constructed
StartTime == 22 * HOUR

UserA == <<"0", "x", "A">>
UserB == <<"0", "x", "B">>
Merchant == <<"0", "x", "M">>
BadAddress == <<"b", "a", "d">>
Users == {UserA, UserB, BadAddress}

Latte == <<"L", "a", "t", "t", "e">>
Blank == <<" ">>

\* an IntentOrderRequest with the merchant address the server passes along
Submission(intent, item, price, quantity, userAddress, merchantAddress) ==
  [ intent |-> intent, item |-> item, price |-> price, quantity |-> quantity,
    userAddress |-> userAddress, merchantAddress |-> merchantAddress ]

\* the requests a run may be called with
Submissions ==
  { Submission("buy_coffee", Latte, x, 1, UserA, Merchant) : x \in {-5, 0, 5, 150} }
    \cup { Submission("buy_coffee", Latte, 5, 1, BadAddress, Merchant),
           Submission("buy_coffee", Latte, 5, 1, UserA, BadAddress),
           Submission("buy_coffee", Blank, 5, 1, UserA, Merchant),
           Submission("bulk_order", Latte, 5, 6, UserA, Merchant),
           Submission("cancel_order", Latte, 5, 1, UserA, Merchant) }

\* the requests a run is called with when another run has been called before
LaterSubmissions ==
  { Submission("buy_coffee", Latte, 5, 1, u, Merchant) : u \in {UserA, UserB} }

\* what getUSDTBalance answers; it answers 0 as well when the query fails
Balances == {0, 50, 500}

\* what executeTransfer answers
TransferResults ==
  { [success |-> TRUE,  txHash |-> "0xhash", error |-> ""],
    [success |-> TRUE,  txHash |-> "",       error |-> ""],
    [success |-> FALSE, txHash |-> "",       error |-> "Transfer failed"] }

\* the values updateConfig is called with
ConfigUpdates == { [maxSinglePayment |-> 200] }

NoDecision ==
  [ decision |-> "none", confidence |-> 0, riskLevel |-> "none",
    reasoning |-> << >>, suggestions |-> << >> ]

\* createFailedAIDecision
createFailedAIDecision(reason) ==
  [ decision |-> "reject", confidence |-> 0, riskLevel |-> "critical",
    reasoning |-> << Step("System Check", "fail", 100) >>, suggestions |-> << >> ]

NoSubmission == Submission("none", << >>, 0, 0, << >>, << >>)

NoContext ==
  [ userAddress |-> << >>, intent |-> "none", item |-> << >>, price |-> 0,
    quantity |-> 0, recentOrderCount |-> 0, totalDailySpending |-> 0,
    agentBalance |-> 0, currentTime |-> 0 ]

NoMessage ==
  [ order |-> [id |-> "", item |-> << >>, price |-> 0, currency |-> "",
               merchantAddress |-> << >>, userAddress |-> << >>],
    status |-> "none", trace |-> << >>, previousAgent |-> "none", error |-> "",
    reception |-> NoRecord, approval |-> NoRecord, payment |-> NoRecord ]

NoTransfer == [success |-> FALSE, txHash |-> "", error |-> ""]

NoResponse ==
  [ success |-> FALSE, orderId |-> "", error |-> "", transaction |-> "none",
    pipeline |-> FALSE ]

\* a call of processOrderWithAI that has not been made yet; transfers counts
\* the calls of executeTransfer, commits the calls of recordSpending and
\* committed their amounts
IdleRun ==
  [ pc |-> "idle", request |-> NoSubmission, orderId |-> "",
    aiDecision |-> NoDecision, message |-> NoMessage, transferResult |-> NoTransfer,
    response |-> NoResponse, transfers |-> 0, commits |-> 0, committed |-> 0 ]

\* a response that does not say why the run was stopped
EarlyResponseSilent(orderId, reason) ==
  [ success |-> FALSE, orderId |-> orderId, error |-> "", transaction |-> "none",
    pipeline |-> FALSE ]

\* the response of a run the decision layer stopped
EarlyResponse(orderId, reason) ==
  [ success |-> FALSE, orderId |-> orderId, error |-> reason, transaction |-> "none",
    pipeline |-> FALSE ]

\* createEnhancedResponse
createEnhancedResponse(message) ==
  [ success     |-> message.status = "completed",
    orderId     |-> message.order.id,
    error       |-> message.error,
    transaction |-> IF message.payment.txHash = "" THEN "none"
                    ELSE IF message.status = "completed" THEN "confirmed"
                    ELSE "failed",
    pipeline    |-> TRUE ]

\* processOrder, the older entry point: it calls processOrderWithAI with the
\* intent buy_coffee and converts the response; data tells whether the
\* response carries transaction data
processOrder(aiResponse) ==
  [ success |-> aiResponse.success,
    status  |-> IF aiResponse.transaction = "confirmed" THEN "completed"
                ELSE IF aiResponse.error # "" THEN "rejected"
                ELSE "failed",
    orderId |-> aiResponse.orderId,
    data    |-> aiResponse.transaction # "none",
    error   |-> aiResponse.error ]

\* the run r returns with message m
Return(r, m) ==
  [r EXCEPT !.pc = "done", !.message = m, !.response = createEnhancedResponse(m)]

\* what the ledger holds, and how many orders of UserA the tracker holds,
\* when earlier traffic has been served since the construction
EarlierTraffic == { <<0, 0>>, <<995, 0>>, <<0, 10>> }

\* Either the orchestrator has just been constructed, or it has been
\* initialized and has served earlier orders within the current hour.
Init ==
  /\ now = StartTime
  /\ ticks = 0
  /\ config = DEFAULT_CONFIG
  /\ run = [p \in Procs |-> IdleRun]
  /\ preview = [context |-> NoContext, result |-> NoDecision]
  /\ \/ /\ isInitialized = FALSE
        /\ ledger = [dailySpending |-> 0, lastResetTime |-> StartTime]
        /\ orderHistory = [u \in Users |-> << >>]
        /\ attempts = orderHistory
     \/ /\ isInitialized = TRUE
        /\ \E earlier \in EarlierTraffic :
             /\ ledger = [dailySpending |-> earlier[1], lastResetTime |-> StartTime]
             /\ orderHistory = [u \in Users |->
                  IF u = UserA THEN [i \in 1..earlier[2] |-> StartTime] ELSE << >>]
             /\ attempts = orderHistory

\* AgentOrchestrator.initialize
Initialize ==
  /\ ~isInitialized
  /\ isInitialized' = TRUE
  /\ UNCHANGED <<now, ticks, config, ledger, orderHistory, attempts, run, preview>>

\* time passes: an hour, or a day
Tick(d) ==
  /\ ticks < MaxTicks
  /\ ticks' = ticks + 1
  /\ now' = now + d
  /\ UNCHANGED <<isInitialized, config, ledger, orderHistory, attempts, run, preview>>

\* AIDecisionEngine.updateConfig
updateConfig(newConfig) ==
  /\ config' = [k \in DOMAIN config |->
                  IF k \in DOMAIN newConfig THEN newConfig[k] ELSE config[k]]
  /\ config' # config
  /\ UNCHANGED <<now, ticks, isInitialized, ledger, orderHistory, attempts, run, preview>>

\* the runs are numbered in the order in which they are called
Earlier(p) == IF p = "order_2" THEN {"order_1"} ELSE {}

\* processOrderWithAI up to its await of getUSDTBalance, or to its return when
\* the orchestrator is not initialized; generateOrderId gives the run its name
Submit(p, s) ==
  /\ run[p].pc = "idle"
  /\ \A q \in Earlier(p) : run[q].pc # "idle"
  /\ Earlier(p) # {} => s \in LaterSubmissions
  /\ run' = [run EXCEPT ![p] =
       IF ~isInitialized
         THEN [@ EXCEPT !.pc = "done", !.request = s,
                        !.aiDecision = createFailedAIDecision("Orchestrator not initialized"),
                        !.response = EarlyResponse("", "Orchestrator not initialized")]
         ELSE [@ EXCEPT !.pc = "balance", !.request = s, !.orderId = p]]
  /\ UNCHANGED <<now, ticks, isInitialized, config, ledger, orderHistory, attempts, preview>>

\* the AIContext processOrderWithAI builds; l is the ledger as
\* getCurrentDailySpending left it
aiContext(request, agentBalance, history, l, t) ==
  [ userAddress        |-> request.userAddress,
    intent             |-> request.intent,
    item               |-> request.item,
    price              |-> request.price,
    quantity           |-> IF request.quantity = 0 THEN 1 ELSE request.quantity,
    recentOrderCount   |-> getRecentOrderCount(history, request.userAddress, t),
    totalDailySpending |-> l.dailySpending,
    agentBalance       |-> agentBalance,
    currentTime        |-> t ]

\* the CoffeeOrder processOrderWithAI builds
coffeeOrder(orderId, request) ==
  [ id |-> orderId, item |-> request.item, price |-> request.price, currency |-> "USDT",
    merchantAddress |-> request.merchantAddress, userAddress |-> request.userAddress ]

\* processOrderWithAI from the answer of getUSDTBalance: the decision layer,
\* and for a run it lets through the Reception stage up to its await of
\* signMessage
DecisionLayer(p, agentBalance) ==
  /\ run[p].pc = "balance"
  /\ LET r == run[p]
         l == checkAndResetDailySpending(ledger, now)
     IN  \E context \in { aiContext(r.request, agentBalance, orderHistory, l, now) } :
         \E decision \in { evaluate(context, config) } :
         \E m \in { receptionBegin(NewMessage(coffeeOrder(r.orderId, r.request))) } :
         \E judged \in { [r EXCEPT !.aiDecision = decision] } :
           /\ ledger' = l
           /\ orderHistory' = recordOrder(orderHistory, r.request.userAddress, now)
           /\ attempts' = [attempts EXCEPT ![r.request.userAddress] = Append(@, now)]
           /\ run' = [run EXCEPT ![p] =
                IF decision.decision = "reject"
                  THEN [judged EXCEPT !.pc = "done",
                          !.response = EarlyResponse(r.orderId, "AI rejected the order")]
                ELSE IF decision.decision = "confirm"
                  THEN [judged EXCEPT !.pc = "done",
                          !.response = EarlyResponse(r.orderId, "Confirmation required")]
                ELSE IF m.status = "rejected"
                  THEN Return(judged, m)
                ELSE [judged EXCEPT !.pc = "receptionSign", !.message = m]]
  /\ UNCHANGED <<now, ticks, isInitialized, config, preview>>

\* signMessage of the Reception stage returns or throws; when it returns the
\* run goes on through the Approval stage up to its await of signMessage
ReceptionSigned(p, signed) ==
  /\ run[p].pc = "receptionSign"
  /\ LET r  == run[p]
         m1 == receptionEnd(r.message)
         l  == IF approvalReadsLedger(m1)
                 THEN checkAndResetDailySpending(ledger, now) ELSE ledger
         m2 == approvalBegin(m1, l, POLICY)
     IN  IF ~signed
           THEN /\ run' = [run EXCEPT ![p] =
                             Return(r, pipelineError(r.message, "signing failed"))]
                /\ UNCHANGED ledger
           ELSE /\ ledger' = l
                /\ run' = [run EXCEPT ![p] =
                     IF m2.status = "rejected" THEN Return(r, m2)
                     ELSE [r EXCEPT !.pc = "approvalSign", !.message = m2]]
  /\ UNCHANGED <<now, ticks, isInitialized, config, orderHistory, attempts, preview>>

\* signMessage of the Approval stage returns or throws; when it returns the
\* run goes on through the Payment stage up to its await of executeTransfer
ApprovalSigned(p, signed) ==
  /\ run[p].pc = "approvalSign"
  /\ LET r  == run[p]
         m1 == approvalEnd(r.message)
         m2 == paymentBegin(m1)
     IN  run' = [run EXCEPT ![p] =
           IF ~signed THEN Return(r, pipelineError(r.message, "signing failed"))
           ELSE IF ~paymentTransfers(m1) THEN Return(r, m2)
           ELSE [r EXCEPT !.pc = "transfer", !.message = m2, !.transfers = @ + 1]]
  /\ UNCHANGED <<now, ticks, isInitialized, config, ledger, orderHistory, attempts, preview>>

\* a faulty recordsSpending, which records whatever the Payment stage
\* returned; C2 must tell it from recordsSpending
recordsSpendingAlways(message) == TRUE

\* message.status === OrderStatus.COMPLETED, the test processOrderWithAI makes
\* before it calls recordSpending
recordsSpending(message) == message.status = "completed"

\* the ledger after the Payment stage returned message
ledgerAfterPayment(message) ==
  IF recordsSpending(message)
    THEN recordSpending(ledger, message.order.price, now)
    ELSE ledger

\* the run r after the Payment stage returned message
ReturnAfterPayment(r, message) ==
  Return(IF recordsSpending(message)
           THEN [r EXCEPT !.commits = @ + 1, !.committed = @ + message.order.price]
           ELSE r,
         message)

\* a faulty TransferReturned, which submits the transfer once more when
\* executeTransfer answered with a failure; C29 must tell it from
\* TransferReturned
TransferRetried(p, transferResult) ==
  /\ run[p].pc = "transfer"
  /\ \E r \in { [run[p] EXCEPT !.transferResult = transferResult] } :
     \E m \in { paymentFailed(r.message, transferResult) } :
       IF paymentSigns(transferResult)
         THEN /\ run' = [run EXCEPT ![p] = [r EXCEPT !.pc = "paymentSign"]]
              /\ UNCHANGED ledger
         ELSE IF ~transferResult.success /\ r.transfers < 2
           THEN /\ run' = [run EXCEPT ![p] = [r EXCEPT !.transfers = @ + 1]]
                /\ UNCHANGED ledger
           ELSE /\ run' = [run EXCEPT ![p] = ReturnAfterPayment(r, m)]
                /\ ledger' = ledgerAfterPayment(m)
  /\ UNCHANGED <<now, ticks, isInitialized, config, orderHistory, attempts, preview>>

\* executeTransfer answers; unless the transfer succeeded with a hash the
\* Payment stage returns
TransferReturned(p, transferResult) ==
  /\ run[p].pc = "transfer"
  /\ \E r \in { [run[p] EXCEPT !.transferResult = transferResult] } :
     \E m \in { paymentFailed(r.message, transferResult) } :
       IF paymentSigns(transferResult)
         THEN /\ run' = [run EXCEPT ![p] = [r EXCEPT !.pc = "paymentSign"]]
              /\ UNCHANGED ledger
         ELSE /\ run' = [run EXCEPT ![p] = ReturnAfterPayment(r, m)]
              /\ ledger' = ledgerAfterPayment(m)
  /\ UNCHANGED <<now, ticks, isInitialized, config, orderHistory, attempts, preview>>

\* signMessage of the Payment stage returns or throws; when it returns the
\* Payment stage returns the run COMPLETED
PaymentSigned(p, signed) ==
  /\ run[p].pc = "paymentSign"
  /\ \E r \in { run[p] } :
     \E m \in { paymentEnd(r.message, r.transferResult) } :
       IF ~signed
         THEN /\ run' = [run EXCEPT ![p] =
                           Return(r, pipelineError(r.message, "signing failed"))]
              /\ UNCHANGED ledger
         ELSE /\ run' = [run EXCEPT ![p] = ReturnAfterPayment(r, m)]
              /\ ledger' = ledgerAfterPayment(m)
  /\ UNCHANGED <<now, ticks, isInitialized, config, orderHistory, attempts, preview>>

Next ==
  \/ Initialize
  \/ \E d \in {HOUR, DAY} : Tick(d)
  \/ \E c \in ConfigUpdates : updateConfig(c)
  \/ \E p \in Procs, s \in Submissions \cup LaterSubmissions : Submit(p, s)
  \/ \E p \in Procs, b \in Balances : DecisionLayer(p, b)
  \/ \E p \in Procs, signed \in BOOLEAN : ReceptionSigned(p, signed)
  \/ \E p \in Procs, signed \in BOOLEAN : ApprovalSigned(p, signed)
  \/ \E p \in Procs, t \in TransferResults : TransferReturned(p, t)
  \/ \E p \in Procs, signed \in BOOLEAN : PaymentSigned(p, signed)

Spec == Init /\ [][Next]_vars

----------------------------------------------------------------------------
(* AIDecisionEngine.evaluate as a function of its context: the engine is
   handed one context, whatever its caller computed, and evaluates it once. *)

\* Scenario A: an order of 0.03 for a valid identity and merchant, submitted
\* to an initialized orchestrator whose ledger is empty, with a balance of 1.0
\* and with every signature and the transfer succeeding. A second call of the
\* other traffic may run beside it, and time may pass.
ScenarioA == Submission("buy_coffee", Latte, 3, 1, UserA, Merchant)

InitA ==
  /\ now = StartTime
  /\ ticks = 0
  /\ isInitialized = TRUE
  /\ config = DEFAULT_CONFIG
  /\ ledger = [dailySpending |-> 0, lastResetTime |-> StartTime]
  /\ orderHistory = [u \in Users |-> << >>]
  /\ attempts = orderHistory
  /\ run = [p \in Procs |-> IdleRun]
  /\ preview = [context |-> NoContext, result |-> NoDecision]

\* the continuation of run p after signMessage or executeTransfer returned
Resume(p) ==
  \/ ReceptionSigned(p, TRUE)
  \/ ApprovalSigned(p, TRUE)
  \/ TransferReturned(p, [success |-> TRUE, txHash |-> "0xhash", error |-> ""])
  \/ PaymentSigned(p, TRUE)

NextA ==
  \/ \E d \in {HOUR, DAY} : Tick(d)
  \/ \E p \in Procs, s \in {ScenarioA} \cup LaterSubmissions : Submit(p, s)
  \/ \E p \in Procs : DecisionLayer(p, 100)      \* a balance of 1.0
  \/ \E p \in Procs : Resume(p)

\* Every awaited promise settles and the event loop then runs the
\* continuation: a run that can resume does resume. For the balance query
\* the condition is written out: DecisionLayer(p, b) is enabled exactly when
\* run[p].pc = "balance" and every step of it leaves that position, so weak
\* fairness of it says that the run is not at "balance" for ever.
FairA ==
  \A p \in Procs :
    /\ []<>(run[p].pc # "balance")
    /\ WF_vars(Resume(p))

SpecA == InitA /\ [][NextA]_vars /\ FairA

\* The order-frequency tracker under the preview endpoint POST /ai/evaluate,
\* with a clock that advances by half an hour or an hour.
MaxAttempts == 3

MaxElapsed == 3

InitT ==
  /\ now = StartTime
  /\ ticks = 0
  /\ isInitialized = TRUE
  /\ config = DEFAULT_CONFIG
  /\ ledger = [dailySpending |-> 0, lastResetTime |-> StartTime]
  /\ orderHistory = [u \in Users |-> << >>]
  /\ attempts = orderHistory
  /\ run = [p \in Procs |-> IdleRun]
  /\ preview = [context |-> NoContext, result |-> NoDecision]

Elapse(d) ==
  /\ ticks < MaxElapsed
  /\ ticks' = ticks + 1
  /\ now' = now + d
  /\ UNCHANGED <<isInitialized, config, ledger, orderHistory, attempts, run, preview>>

\* the handler of POST /ai/evaluate for an order of a Latte at 0.05 by
\* userAddress, the balance being 5.0: getSystemInfo takes the snapshot of the
\* ledger, the context takes getRecentOrderCount(userAddress), and evaluate
\* records the order
aiEvaluate(userAddress) ==
  /\ Len(attempts[userAddress]) < MaxAttempts
  /\ \E l \in { checkAndResetDailySpending(ledger, now) } :
     \E context \in { aiContext(Submission("buy_coffee", Latte, 5, 1, userAddress, Merchant),
                                500, orderHistory, l, now) } :
       /\ ledger' = l
       /\ preview' = [context |-> context, result |-> evaluate(context, config)]
  /\ orderHistory' = recordOrder(orderHistory, userAddress, now)
  /\ attempts' = [attempts EXCEPT ![userAddress] = Append(@, now)]
  /\ UNCHANGED <<now, ticks, isInitialized, config, run>>

NextT ==
  \/ \E d \in {1, HOUR} : Elapse(d)
  \/ \E userAddress \in {UserA, UserB} : aiEvaluate(userAddress)

SpecT == InitT /\ [][NextT]_vars

\* The stages called on their own: ApprovalAgent.process and
\* PaymentAgent.process are handed a message whose previousAgent and status
\* are whatever the caller left there; what follows the stage is the rest of
\* processOrderWithAI. The window of the ledger has elapsed or has not.
HandedMessages ==
  { [NewMessage(coffeeOrder("order_1", Submission("buy_coffee", Latte, x, 1, UserA, Merchant)))
       EXCEPT !.status = st, !.previousAgent = a] :
      x \in {5, 150},
      st \in {"received", "pending_approval", "approved", "rejected"},
      a \in {"none", "reception", "approval", "payment"} }

\* the orders the Reception stage is handed: a well-formed one and orders
\* with one defect each
HandedOrders ==
  LET order == coffeeOrder("order_1", Submission("buy_coffee", Latte, 5, 1, UserA, Merchant))
  IN  { order,
        [order EXCEPT !.item = << >>],
        [order EXCEPT !.item = Blank],
        [order EXCEPT !.price = 0],
        [order EXCEPT !.price = -5],
        [order EXCEPT !.currency = "ETH"],
        [order EXCEPT !.currency = ""],
        [order EXCEPT !.userAddress = BadAddress],
        [order EXCEPT !.userAddress = << >>],
        [order EXCEPT !.merchantAddress = BadAddress] }

InitS ==
  /\ \E d \in {0, DAY} : now = StartTime + d
  /\ ticks = 0
  /\ isInitialized = TRUE
  /\ config = DEFAULT_CONFIG
  /\ \E spent \in {0, 995} : ledger = [dailySpending |-> spent, lastResetTime |-> StartTime]
  /\ orderHistory = [u \in Users |-> << >>]
  /\ attempts = orderHistory
  /\ \E stage \in {"reception", "approval", "payment"} :
     \E message \in IF stage = "reception" THEN { NewMessage(order) : order \in HandedOrders }
                                            ELSE HandedMessages :
       /\ run = [p \in Procs |->
                IF p = "order_1"
                  THEN [IdleRun EXCEPT
                          !.pc = stage, !.orderId = message.order.id, !.message = message,
                          !.request = Submission("buy_coffee", message.order.item,
                                        message.order.price, 1, message.order.userAddress,
                                        message.order.merchantAddress)]
                  ELSE IdleRun]
  /\ preview = [context |-> NoContext, result |-> NoDecision]

\* ReceptionAgent.process up to its await of signMessage, or to its return
receptionProcess(p) ==
  /\ run[p].pc = "reception"
  /\ \E r \in { run[p] } :
     \E m \in { receptionBegin(r.message) } :
       run' = [run EXCEPT ![p] =
         IF m.status = "rejected" THEN Return(r, m)
         ELSE [r EXCEPT !.pc = "receptionSign", !.message = m]]
  /\ UNCHANGED <<now, ticks, isInitialized, config, ledger, orderHistory, attempts, preview>>

\* ApprovalAgent.process up to its await of signMessage, or to its return
approvalProcess(p) ==
  /\ run[p].pc = "approval"
  /\ \E r \in { run[p] } :
     \E l \in { IF approvalReadsLedger(r.message)
                  THEN checkAndResetDailySpending(ledger, now) ELSE ledger } :
     \E m \in { approvalBegin(r.message, l, POLICY) } :
       /\ ledger' = l
       /\ run' = [run EXCEPT ![p] =
            IF m.approval.result = "rejected" THEN Return(r, m)
            ELSE [r EXCEPT !.pc = "approvalSign", !.message = m]]
  /\ UNCHANGED <<now, ticks, isInitialized, config, orderHistory, attempts, preview>>

\* PaymentAgent.process up to its await of executeTransfer, or to its return
paymentProcess(p) ==
  /\ run[p].pc = "payment"
  /\ \E r \in { run[p] } :
     \E m \in { paymentBegin(r.message) } :
       IF paymentTransfers(r.message)
         THEN /\ run' = [run EXCEPT ![p] =
                   [r EXCEPT !.pc = "transfer", !.message = m, !.transfers = @ + 1]]
              /\ UNCHANGED ledger
         ELSE /\ run' = [run EXCEPT ![p] = ReturnAfterPayment(r, m)]
              /\ ledger' = ledgerAfterPayment(m)
  /\ UNCHANGED <<now, ticks, isInitialized, config, orderHistory, attempts, preview>>

NextS ==
  \/ \E p \in Procs : receptionProcess(p)
  \/ \E p \in Procs, signed \in BOOLEAN : ReceptionSigned(p, signed)
  \/ \E p \in Procs : approvalProcess(p)
  \/ \E p \in Procs : paymentProcess(p)
  \/ \E p \in Procs, signed \in BOOLEAN : ApprovalSigned(p, signed)
  \/ \E p \in Procs, t \in TransferResults : TransferReturned(p, t)
  \/ \E p \in Procs, signed \in BOOLEAN : PaymentSigned(p, signed)

SpecS == InitS /\ [][NextS]_vars

Contexts ==
  [ userAddress        : {UserA},
    intent             : {"buy_coffee", "bulk_order", "cancel_order"},
    item               : {Latte},
    price              : {0, 3, 50, 90, 150},
    quantity           : {1, 6},
    recentOrderCount   : {0, 7, 10},
    totalDailySpending : {0, 900, 950},
    agentBalance       : {0, 50, 90, 100, 500},
    currentTime        : {12 * HOUR, 23 * HOUR} ]

InitEval ==
  /\ now = StartTime
  /\ ticks = 0
  /\ isInitialized = TRUE
  /\ config = DEFAULT_CONFIG
  /\ ledger = [dailySpending |-> 0, lastResetTime |-> StartTime]
  /\ orderHistory = [u \in Users |-> << >>]
  /\ attempts = orderHistory
  /\ run = [p \in Procs |-> IdleRun]
  /\ \E context \in Contexts : preview = [context |-> context, result |-> NoDecision]

\* AIDecisionEngine.evaluate(context)
Evaluate ==
  /\ preview.result = NoDecision
  /\ preview' = [preview EXCEPT !.result = evaluate(preview.context, config)]
  /\ orderHistory' = recordOrder(orderHistory, preview.context.userAddress, now)
  /\ attempts' = [attempts EXCEPT ![preview.context.userAddress] = Append(@, now)]
  /\ UNCHANGED <<now, ticks, isInitialized, config, ledger, run>>

NextEval == Evaluate

SpecEval == InitEval /\ [][NextEval]_vars

----------------------------------------------------------------------------
(* processOrderWithAI from its balance query on, for one call whose request
   is drawn with every intent: the decision layer and, for the requests it
   lets through, the three stages. *)

\* the requests of the call
IntentRequests ==
  { Submission(intent, Latte, x, quantity, UserA, Merchant) :
      intent \in {"buy_coffee", "bulk_order", "cancel_order"},
      x \in {-5, 5, 90, 150},
      quantity \in {1, 6} }

\* The orchestrator is initialized and has served earlier traffic; the call
\* order_1 has been made and waits for getUSDTBalance.
InitI ==
  /\ \E t \in {12 * HOUR, StartTime, DAY + 12 * HOUR} : now = t
  /\ ticks = 0
  /\ isInitialized = TRUE
  /\ config = DEFAULT_CONFIG
  /\ \E spent \in {0, 995} : ledger = [dailySpending |-> spent, lastResetTime |-> 0]
  /\ \E count \in {0, 7, 10} :
       orderHistory = [u \in Users |-> IF u = UserA THEN [i \in 1..count |-> now] ELSE << >>]
  /\ attempts = orderHistory
  /\ \E request \in IntentRequests :
       run = [p \in Procs |->
                IF p = "order_1"
                  THEN [IdleRun EXCEPT !.pc = "balance", !.request = request, !.orderId = p]
                  ELSE IdleRun]
  /\ preview = [context |-> NoContext, result |-> NoDecision]

NextI ==
  \/ \E p \in Procs, agentBalance \in Balances : DecisionLayer(p, agentBalance)
  \/ \E p \in Procs, signed \in BOOLEAN : ReceptionSigned(p, signed)
  \/ \E p \in Procs, signed \in BOOLEAN : ApprovalSigned(p, signed)
  \/ \E p \in Procs, transferResult \in TransferResults : TransferReturned(p, transferResult)
  \/ \E p \in Procs, signed \in BOOLEAN : PaymentSigned(p, signed)

SpecI == InitI /\ [][NextI]_vars

----------------------------------------------------------------------------
(* processOrderWithAI from its balance query on, when every awaited promise
   settles: the balance query, the signer and executeTransfer each return or
   throw, and the event loop then runs the continuation of the call. *)

\* The orchestrator is initialized, updateConfig may have raised the engine's
\* ceiling, and the call order_1 has been made with any of the requests.
InitR ==
  /\ \E t \in {12 * HOUR, StartTime} : now = t
  /\ ticks = 0
  /\ isInitialized = TRUE
  /\ \E c \in {DEFAULT_CONFIG} \cup
               { [k \in DOMAIN DEFAULT_CONFIG |->
                    IF k \in DOMAIN u THEN u[k] ELSE DEFAULT_CONFIG[k]] : u \in ConfigUpdates } :
       config = c
  /\ \E spent \in {0, 900, 995} : ledger = [dailySpending |-> spent, lastResetTime |-> 0]
  /\ orderHistory = [u \in Users |-> << >>]
  /\ attempts = orderHistory
  /\ \E request \in Submissions :
       run = [p \in Procs |->
                IF p = "order_1"
                  THEN [IdleRun EXCEPT !.pc = "balance", !.request = request, !.orderId = p]
                  ELSE IdleRun]
  /\ preview = [context |-> NoContext, result |-> NoDecision]

\* the continuation of run p after signMessage or executeTransfer returned
\* or threw
Settle(p) ==
  \/ \E signed \in BOOLEAN : ReceptionSigned(p, signed)
  \/ \E signed \in BOOLEAN : ApprovalSigned(p, signed)
  \/ \E transferResult \in TransferResults : TransferReturned(p, transferResult)
  \/ \E signed \in BOOLEAN : PaymentSigned(p, signed)

NextR ==
  \/ \E p \in Procs, agentBalance \in Balances : DecisionLayer(p, agentBalance)
  \/ \E p \in Procs : Settle(p)

\* Every awaited promise settles and its continuation runs. For the balance
\* query the condition is written out, as in FairA.
FairR ==
  \A p \in Procs :
    /\ []<>(run[p].pc # "balance")
    /\ WF_vars(Settle(p))

SpecR == InitR /\ [][NextR]_vars /\ FairR

----------------------------------------------------------------------------
(* The single-agent path: src/src/agent/coffeeAgent.ts with the policy of
   src/src/agent/policy.ts and payWithAgent of src/unnamed/part_004.  In this
   path ledger holds the fields of the module's spendingTracker, config holds
   the agent's PaymentPolicy, and a run is a call of CoffeeAgent.processOrder,
   which gives up the thread at its await of payWithAgent. *)

defaultPolicy ==
  [ maxSinglePayment  |-> 100,
    maxDailySpending  |-> 1000,
    allowedCurrencies |-> {"USDT"},
    timeWindowSeconds |-> DAY ]

\* SpendingTracker.checkAndReset at time t; the tracker is constructed with
\* the window of defaultPolicy
checkAndReset(tracker, t) ==
  IF t - tracker.lastResetTime >= defaultPolicy.timeWindowSeconds
    THEN [dailySpending |-> 0, lastResetTime |-> t]
    ELSE tracker

\* SpendingTracker.addSpending
addSpending(tracker, amount, t) ==
  [checkAndReset(tracker, t) EXCEPT !.dailySpending = @ + amount]

\* a faulty validatePayment, which does not ask for a positive amount; C32
\* must tell it from validatePayment
validatePaymentNoFloor(amount, currency, policy, tracker, t) ==
  IF currency \notin policy.allowedCurrencies
    THEN [isValid |-> FALSE, reason |-> "Currency is not allowed", tracker |-> tracker]
  ELSE IF amount > policy.maxSinglePayment
    THEN [isValid |-> FALSE, reason |-> "Payment amount exceeds maximum single payment limit",
          tracker |-> tracker]
  ELSE LET current == checkAndReset(tracker, t)
       IN  IF current.dailySpending + amount > policy.maxDailySpending
             THEN [isValid |-> FALSE, reason |-> "Payment would exceed daily spending limit",
                   tracker |-> current]
             ELSE [isValid |-> TRUE, reason |-> "", tracker |-> current]

\* validatePayment(amount, currency, policy) at time t; tracker is the
\* spendingTracker before the call and the field tracker is what
\* getCurrentSpending leaves of it
validatePayment(amount, currency, policy, tracker, t) ==
  IF currency \notin policy.allowedCurrencies
    THEN [isValid |-> FALSE, reason |-> "Currency is not allowed", tracker |-> tracker]
  ELSE IF amount > policy.maxSinglePayment
    THEN [isValid |-> FALSE, reason |-> "Payment amount exceeds maximum single payment limit",
          tracker |-> tracker]
  ELSE IF amount <= 0
    THEN [isValid |-> FALSE, reason |-> "Payment amount must be greater than 0",
          tracker |-> tracker]
  ELSE LET current == checkAndReset(tracker, t)
       IN  IF current.dailySpending + amount > policy.maxDailySpending
             THEN [isValid |-> FALSE, reason |-> "Payment would exceed daily spending limit",
                   tracker |-> current]
             ELSE [isValid |-> TRUE, reason |-> "", tracker |-> current]

\* the placeholder of the merchant address in the configuration
Placeholder == <<"0", "x", "Y">>

\* the orders CoffeeAgent.processOrder is called with
CoffeeOrders ==
  [ item            : {Latte},
    price           : {-5, 0, 50, 100, 150},
    currency        : {"USDT", "ETH"},
    merchantAddress : {Merchant, << >>} ]

\* what payWithAgent answers
PaymentResults ==
  { [success |-> TRUE,  transactionHash |-> "0xhash", error |-> ""],
    [success |-> TRUE,  transactionHash |-> "",       error |-> ""],
    [success |-> FALSE, transactionHash |-> "",       error |-> "Unknown error"] }

\* the values CoffeeAgent.updatePolicy is called with
PolicyUpdates == { [maxSinglePayment |-> 200], [maxDailySpending |-> 100] }

\* The agent has been constructed with defaultPolicy, initialized or not, and
\* earlier orders may have been paid within the current window.
InitC ==
  /\ now = StartTime
  /\ ticks = 0
  /\ isInitialized \in BOOLEAN
  /\ config = defaultPolicy
  /\ \E spent \in {0, 950} :
       ledger = [dailySpending |-> IF isInitialized THEN spent ELSE 0,
                 lastResetTime |-> StartTime]
  /\ orderHistory = [u \in Users |-> << >>]
  /\ attempts = orderHistory
  /\ run = [p \in Procs |-> IdleRun]
  /\ preview = [context |-> NoContext, result |-> NoDecision]

\* CoffeeAgent.initialize
coffeeInitialize ==
  /\ ~isInitialized
  /\ isInitialized' = TRUE
  /\ UNCHANGED <<now, ticks, config, ledger, orderHistory, attempts, run, preview>>

\* CoffeeAgent.updatePolicy(newPolicy)
updatePolicy(newPolicy) ==
  /\ config' = [k \in DOMAIN config |->
                  IF k \in DOMAIN newPolicy THEN newPolicy[k] ELSE config[k]]
  /\ config' # config
  /\ UNCHANGED <<now, ticks, isInitialized, ledger, orderHistory, attempts, run, preview>>

\* CoffeeAgent.processOrder(order) up to its await of payWithAgent, or to its
\* return; defaultMerchantAddress is config.payment.defaultMerchantAddress
coffeeProcessOrder(p, order, defaultMerchantAddress) ==
  /\ run[p].pc = "idle"
  /\ \A q \in Earlier(p) : run[q].pc # "idle"
  /\ LET r        == [run[p] EXCEPT !.request = order]
         stopped(reason) ==
           [r EXCEPT !.pc = "done", !.response = EarlyResponse("", reason)]
         merchant == IF order.merchantAddress = << >> \/ order.merchantAddress = Placeholder
                       THEN defaultMerchantAddress ELSE order.merchantAddress
         validation == validatePayment(order.price, order.currency, config, ledger, now)
     IN  IF ~isInitialized
           THEN /\ run' = [run EXCEPT ![p] = stopped("Coffee Agent is not initialized")]
                /\ UNCHANGED ledger
         ELSE IF merchant = << >> \/ merchant = Placeholder
           THEN /\ run' = [run EXCEPT ![p] = stopped("Invalid merchant address")]
                /\ UNCHANGED ledger
         ELSE IF ~validation.isValid
           THEN /\ run' = [run EXCEPT ![p] =
                     [stopped(validation.reason) EXCEPT !.request.merchantAddress = merchant]]
                /\ ledger' = validation.tracker
         ELSE /\ run' = [run EXCEPT ![p] =
                   [r EXCEPT !.pc = "pay", !.request.merchantAddress = merchant,
                             !.transfers = @ + 1]]
              /\ ledger' = validation.tracker
  /\ UNCHANGED <<now, ticks, isInitialized, config, orderHistory, attempts, preview>>

\* payWithAgent answers and CoffeeAgent.processOrder returns
paymentReturned(p, paymentResult) ==
  /\ run[p].pc = "pay"
  /\ LET r == [run[p] EXCEPT !.pc = "done", !.transferResult.success = paymentResult.success,
                             !.transferResult.txHash = paymentResult.transactionHash,
                             !.transferResult.error = paymentResult.error]
     IN  IF paymentResult.success
           THEN /\ ledger' = addSpending(ledger, r.request.price, now)
                /\ run' = [run EXCEPT ![p] =
                     [r EXCEPT !.commits = @ + 1, !.committed = @ + r.request.price,
                               !.response = [NoResponse EXCEPT !.success = TRUE]]]
           ELSE /\ UNCHANGED ledger
                /\ run' = [run EXCEPT ![p] =
                     [r EXCEPT !.response = EarlyResponse("", paymentResult.error)]]
  /\ UNCHANGED <<now, ticks, isInitialized, config, orderHistory, attempts, preview>>

NextC ==
  \/ coffeeInitialize
  \/ \E d \in {HOUR, DAY} : Tick(d)
  \/ \E newPolicy \in PolicyUpdates : updatePolicy(newPolicy)
  \/ \E p \in Procs, order \in CoffeeOrders, defaultMerchantAddress \in {<< >>, Merchant} :
       coffeeProcessOrder(p, order, defaultMerchantAddress)
  \/ \E p \in Procs, paymentResult \in PaymentResults : paymentReturned(p, paymentResult)

SpecC == InitC /\ [][NextC]_vars

----------------------------------------------------------------------------
(* The properties *)

\* the runs that have passed the limit check of the Approval stage and have
\* neither committed their spending nor failed yet
InFlight == { p \in Procs : run[p].pc \in {"approvalSign", "transfer", "paymentSign"} }

RECURSIVE SumOfPrices(_)
SumOfPrices(S) ==
  IF S = {} THEN 0
  ELSE LET p == CHOOSE q \in S : TRUE
       IN  run[p].request.price + SumOfPrices(S \ {p})

\* C1: whatever the interleaving of the concurrent runs of processOrderWithAI,
\* the amount the ledger holds as committed within one window never exceeds
\* maxDailySpending.
C1_LedgerWithinCeiling == ledger.dailySpending <= POLICY.maxDailySpending

\* the runs that return COMPLETED in the step
Completing ==
  { p \in Procs : /\ run[p].pc # "done"
                  /\ run'[p].pc = "done"
                  /\ run'[p].message.status = "completed" }

\* C2: recordSpending is performed exactly once, with the order's price, for
\* every run that returns COMPLETED, and never for a run that returns REJECTED
\* or FAILED or that the decision layer stopped, and never again for a run
\* that has returned: in every step the ledger grows by the prices of the runs
\* that return COMPLETED in that step, and by nothing else.
C2_CommitOncePerCompletedRun ==
  [][ /\ ledger'.dailySpending \in
           { ledger.dailySpending + SumOfPrices(Completing),
             checkAndResetDailySpending(ledger, now).dailySpending
               + SumOfPrices(Completing) }
      /\ \A p \in Procs : run[p].pc = "done" => run'[p] = run[p] ]_vars

\* a run has returned COMPLETED and has recorded its price, another has
\* returned FAILED after its transfer and has recorded nothing
C2_Witness ==
  \E p, q \in Procs :
    /\ run[p].pc = "done" /\ run[p].message.status = "completed"
    /\ run[p].commits = 1 /\ run[p].committed = run[p].request.price
    /\ ledger.dailySpending >= run[p].request.price
    /\ run[q].pc = "done" /\ run[q].message.status = "failed"
    /\ run[q].transfers = 1 /\ run[q].commits = 0

\* the moves of the status that the pipeline allows
PipelineMoves ==
  { <<"received", "validating">>,
    <<"validating", "rejected">>, <<"validating", "pending_approval">>,
    <<"pending_approval", "rejected">>, <<"pending_approval", "approved">>,
    <<"approved", "processing">>,
    <<"processing", "completed">>, <<"processing", "failed">> }

\* C3: on every path of a run, the paths on which a stage throws included,
\* the status starts RECEIVED and only moves along the pipeline: no move skips
\* a stage or goes back.
C3_StatusMovesAlongPipeline ==
  \A p \in Procs :
    LET trace == run[p].message.trace
    IN  /\ trace # << >> => trace[1] = "received"
        /\ \A i \in 1..(Len(trace) - 1) : <<trace[i], trace[i + 1]>> \in PipelineMoves

\* C4: executeTransfer is called for a run only when its previousAgent is
\* the Approval stage and its status is APPROVED, hence only after the
\* Reception stage recorded pass and the Approval stage recorded approved.
C4_TransferOnlyAfterApproval ==
  \A p \in Procs :
    LET m == run[p].message
    IN  /\ run[p].transfers <= 1
        /\ run[p].transfers > 0 =>
             /\ m.reception.result = "pass"
             /\ m.approval.result = "approved"
             /\ \E i \in 1..(Len(m.trace) - 1) :
                  m.trace[i] = "approved" /\ m.trace[i + 1] = "processing"
        /\ run[p].pc \in {"transfer", "paymentSign"} =>
             /\ run[p].transfers = 1
             /\ m.previousAgent = "approval"
             /\ m.status = "processing"
        /\ \A i \in 2..Len(m.trace) :
             m.trace[i] = "processing" => m.trace[i - 1] = "approved"

\* a run is waiting for the answer of executeTransfer
C4_Witness ==
  \E p \in Procs :
    /\ run[p].pc = "transfer" /\ run[p].transfers = 1
    /\ run[p].message.reception.result = "pass"
    /\ run[p].message.approval.signature

\* the Approval stage decides about the run p in the step: the Reception
\* stage's signature has come and p either waits for the Approval stage's
\* signature or has returned
ApprovalDecides(p) ==
  /\ run[p].pc = "receptionSign"
  /\ run'[p].pc \in {"approvalSign", "done"}
  /\ run'[p].message.reception.result = "pass"

\* C5: the Approval stage, reading the ledger when it runs and after the lazy
\* reset of the window, rejects a run exactly when the price exceeds
\* maxSinglePayment or the committed spend, plus the spend of the runs in
\* flight, plus the price exceeds maxDailySpending.
C5_ApprovalRejectsExactlyOverLimit ==
  [][ \A p \in Procs :
        ApprovalDecides(p) =>
          LET price     == run[p].request.price
              committed == checkAndResetDailySpending(ledger, now).dailySpending
              pending   == SumOfPrices(InFlight \ {p})
          IN  run'[p].message.status = "rejected"
                <=> \/ price > POLICY.maxSinglePayment
                    \/ committed + pending + price > POLICY.maxDailySpending ]_vars

\* the decision layer judges the run p in the step
LayerDecides(p) == run[p].pc = "balance" /\ run'[p].pc # "balance"

\* C7: when an identity has made maxOrdersPerHour orders inside the window,
\* its next order gets a Rate Limit step of fail or warn and is not approved.
C7_OrderOverCapNotApproved ==
  [][ \A p \in Procs :
        ( /\ LayerDecides(p)
          /\ getRecentOrderCount(orderHistory, run[p].request.userAddress, now)
               >= config.maxOrdersPerHour )
        => /\ run'[p].aiDecision.reasoning[5].check = "Rate Limit Check"
           /\ run'[p].aiDecision.reasoning[5].result \in {"fail", "warn"}
           /\ run'[p].aiDecision.decision # "approve" ]_vars

\* the result evaluate gave
Evaluated == preview.result # NoDecision

\* C6: whenever a step fails with a weight of 0.9 or more, evaluate returns
\* REJECT, whatever the confidence and whatever the other steps.
C6_CriticalFailRejects ==
  Evaluated =>
    ( (\E i \in DOMAIN preview.result.reasoning :
         /\ preview.result.reasoning[i].result = "fail"
         /\ preview.result.reasoning[i].weight >= 90)
      => preview.result.decision = "reject" )

\* the Daily Limit step, whose weight is 0.9, is the only failure, the
\* confidence is not below autoRejectThreshold, and evaluate returned REJECT
C6_Witness ==
  /\ Evaluated
  /\ preview.result.reasoning[3].result = "fail"
  /\ preview.result.reasoning[3].weight = 90
  /\ \A i \in DOMAIN preview.result.reasoning :
       i # 3 => preview.result.reasoning[i].result # "fail"
  /\ preview.result.confidence >= config.autoRejectThreshold
  /\ preview.result.decision = "reject"

\* twice the score the scoring rule gives a step: its weight when it passes,
\* half its weight when it warns, nothing when it fails
RuleScore(step) ==
  IF step.result = "pass" THEN 2 * step.weight
  ELSE IF step.result = "warn" THEN step.weight
  ELSE 0

\* twice the score evaluate adds for the i-th step, in exact arithmetic
CodeScore(i, step) ==
  IF step.result = "pass" THEN 2 * step.weight
  ELSE IF step.result = "warn" /\ i # 4 THEN step.weight
  ELSE 0

RECURSIVE SumTo(_, _)
SumTo(f, i) == IF i = 0 THEN 0 ELSE f[i] + SumTo(f, i - 1)

SumAll(f) == SumTo(f, Len(f))

Abs(x) == IF x < 0 THEN 0 - x ELSE x

\* C8: the confidence evaluate returns is the sum of the steps' scores over
\* the sum of their weights, rounded to two decimals, a step scoring its
\* weight when pass, half its weight when warn and 0 when fail, for each of
\* the six checks: the returned hundredths are within one half of the exact
\* quotient.
C8_ConfidenceIsRoundedMean ==
  Evaluated =>
    LET reasoning == preview.result.reasoning
        scores    == SumAll([i \in DOMAIN reasoning |-> RuleScore(reasoning[i])])
        weights   == SumAll([i \in DOMAIN reasoning |-> reasoning[i].weight])
    IN  Abs((2 * preview.result.confidence * weights) - (100 * scores)) <= weights

\* C9: when no step fails with a weight of 0.9 or more and the intent is no
\* cancellation, a confidence of at least autoApproveThreshold gives APPROVE,
\* else one below autoRejectThreshold gives REJECT, else two warnings or more
\* give CONFIRM, else APPROVE; the confidence is the exact quotient of the
\* scores evaluate adds up and of the weights.
C9_DecisionPrecedence ==
  Evaluated =>
    LET reasoning == preview.result.reasoning
        scores    == SumAll([i \in DOMAIN reasoning |-> CodeScore(i, reasoning[i])])
        weights   == SumAll([i \in DOMAIN reasoning |-> reasoning[i].weight])
        critical  == \E i \in DOMAIN reasoning :
                       reasoning[i].result = "fail" /\ reasoning[i].weight >= 90
        warnings  == Cardinality({i \in DOMAIN reasoning : reasoning[i].result = "warn"})
    IN  (~critical /\ preview.context.intent # "cancel_order") =>
          preview.result.decision =
            IF 100 * scores >= 2 * config.autoApproveThreshold * weights THEN "approve"
            ELSE IF 100 * scores < 2 * config.autoRejectThreshold * weights THEN "reject"
            ELSE IF warnings >= 2 THEN "confirm"
            ELSE "approve"

\* C10: the risk level of every result is critical if a step fails; else high
\* if three steps or more warn; else medium if a step warns or the confidence
\* is below 0.7; else low.
C10_RiskTier ==
  Evaluated =>
    LET reasoning == preview.result.reasoning
        fails     == Cardinality({i \in DOMAIN reasoning : reasoning[i].result = "fail"})
        warnings  == Cardinality({i \in DOMAIN reasoning : reasoning[i].result = "warn"})
    IN  preview.result.riskLevel =
          IF fails > 0 THEN "critical"
          ELSE IF warnings >= 3 THEN "high"
          ELSE IF warnings >= 1 \/ preview.result.confidence < 70 THEN "medium"
          ELSE "low"

\* three steps warn, none fails, and the risk level is high
C10_Witness ==
  /\ Evaluated
  /\ Cardinality({i \in DOMAIN preview.result.reasoning :
                    preview.result.reasoning[i].result = "warn"}) = 3
  /\ \A i \in DOMAIN preview.result.reasoning :
       preview.result.reasoning[i].result # "fail"
  /\ preview.result.riskLevel = "high"

\* C11: the confidence of every decision result lies in [0, 1], that is
\* between 0 and 100 hundredths.
C11_ConfidenceInUnitInterval ==
  Evaluated => preview.result.confidence \in 0..100

\* every step passes and the confidence is the upper end of the interval
C11_Witness ==
  /\ Evaluated
  /\ \A i \in DOMAIN preview.result.reasoning :
       preview.result.reasoning[i].result = "pass"
  /\ preview.result.confidence = 100

\* C12: a call whose price is zero or negative is decided REJECT with the
\* Amount step failed wherever the engine evaluated it, and it ends there: no
\* stage of the pipeline runs (no message is built, no status is set) and
\* executeTransfer is not called.
C12_NonPositivePriceRejected ==
  \A p \in Procs :
    (run[p].pc \notin {"idle", "balance"} /\ run[p].request.price <= 0) =>
      /\ run[p].pc = "done"
      /\ run[p].aiDecision.decision = "reject"
      /\ \/ run[p].aiDecision = createFailedAIDecision("Orchestrator not initialized")
         \/ /\ Len(run[p].aiDecision.reasoning) = 6
            /\ run[p].aiDecision.reasoning[2].check = "Amount Validation"
            /\ run[p].aiDecision.reasoning[2].result = "fail"
      /\ run[p].message = NoMessage
      /\ run[p].transfers = 0
      /\ run[p].commits = 0
      /\ ~run[p].response.success

\* the engine evaluated a call with a negative price, the Amount step is the
\* only step that failed, and the call returned without a message
C12_Witness ==
  \E p \in Procs :
    /\ run[p].pc = "done"
    /\ run[p].request.price < 0
    /\ Len(run[p].aiDecision.reasoning) = 6
    /\ \A i \in 1..6 : (run[p].aiDecision.reasoning[i].result = "fail") <=> (i = 2)
    /\ run[p].aiDecision.decision = "reject"
    /\ run[p].message = NoMessage

C14_DailyCeilingScenario ==
  ( /\ Evaluated
    /\ preview.context.intent = "buy_coffee"
    /\ preview.context.totalDailySpending = 900
    /\ preview.context.agentBalance >= preview.context.price
    /\ preview.context.recentOrderCount < config.maxOrdersPerHour )
  => /\ (900 + preview.context.price > config.maxDailySpending)
          => preview.result.decision = "reject"
     /\ (preview.context.price = 50) => preview.result.decision = "approve"

\* C15: in scenario A the call is decided APPROVE and leads to a completed
\* run: status COMPLETED, the three stage records pass, approved and success
\* present, and one recordSpending of exactly 0.03.
C15_ScenarioACompletes ==
  \A p \in Procs :
    (run[p].pc = "balance" /\ run[p].request = ScenarioA)
      ~> ( /\ run[p].pc = "done"
           /\ run[p].aiDecision.decision = "approve"
           /\ run[p].message.status = "completed"
           /\ run[p].message.reception.result = "pass"
           /\ run[p].message.approval.result = "approved"
           /\ run[p].message.payment.result = "success"
           /\ run[p].response.success
           /\ run[p].transfers = 1
           /\ run[p].commits = 1
           /\ run[p].committed = 3 )

\* the scenario's run has completed and the ledger holds its 0.03
C15_Witness ==
  \E p \in Procs :
    /\ run[p].pc = "done"
    /\ run[p].request = ScenarioA
    /\ run[p].message.status = "completed"
    /\ run[p].committed = 3
    /\ ledger.dailySpending = 3

\* the window of the ledger has elapsed
WindowElapsed == now - ledger.lastResetTime >= DAY

\* in the step a run takes a snapshot of the ledger (getCurrentDailySpending
\* of the decision layer, evaluateOrder of the Approval stage) or commits
TouchesLedger ==
  \E p \in Procs : LayerDecides(p) \/ ApprovalDecides(p) \/ p \in Completing

\* C16: the reset of the ledger is all-or-nothing. Once the window has
\* elapsed, the next snapshot or commit sets lastResetTime to now and the
\* amount to 0 before anything is added, and until a snapshot or commit comes
\* the ledger stays as it is; while the window has not elapsed lastResetTime
\* stays and the amount never decreases.
C16_ResetAllOrNothing ==
  [][ /\ (WindowElapsed /\ TouchesLedger) =>
           /\ ledger'.lastResetTime = now
           /\ ledger'.dailySpending = SumOfPrices(Completing)
      /\ (WindowElapsed /\ ~TouchesLedger) => ledger' = ledger
      /\ ~WindowElapsed =>
           /\ ledger'.lastResetTime = ledger.lastResetTime
           /\ ledger'.dailySpending >= ledger.dailySpending ]_vars

\* a run has committed its price, a day has passed, and a snapshot has set
\* the ledger back to nothing
C16_Witness ==
  /\ \E p \in Procs : run[p].pc = "done" /\ run[p].committed > 0
  /\ ledger.lastResetTime = StartTime + DAY
  /\ ledger.dailySpending = 0

\* C17: the snapshot the decision layer takes while the window has not
\* elapsed leaves dailySpending and lastResetTime as they are, and the amount
\* grows only in a step in which a run returns COMPLETED and records its
\* spending: every other step of a run (evaluation, Reception, Approval,
\* Payment) leaves it or sets it back.
C17_OnlyCommitIncreases ==
  [][ /\ (~WindowElapsed /\ \E p \in Procs : LayerDecides(p)) => ledger' = ledger
      /\ ledger'.dailySpending > ledger.dailySpending =>
           /\ Completing # {}
           /\ \A p \in Completing : run'[p].commits = run[p].commits + 1
      /\ \A p \in Procs :
           (run'[p] # run[p] /\ p \notin Completing) =>
             ledger'.dailySpending <= ledger.dailySpending ]_vars

\* an hour into the window, with 9.95 committed, the decision layer has
\* taken a snapshot (the order it recorded bears the time) and the ledger is
\* as it was
C17_Witness ==
  /\ now = StartTime + HOUR
  /\ \E u \in Users : \E i \in DOMAIN orderHistory[u] : orderHistory[u][i] = now
  /\ ledger = [dailySpending |-> 995, lastResetTime |-> StartTime]

\* the committed spend an evaluation or an Approval check would observe now:
\* getCurrentDailySpending takes no identity
SpendSeen == checkAndResetDailySpending(ledger, now).dailySpending

\* C18: ledgers and trackers are partitioned by identity: a step of a run
\* made for one identity changes neither the committed spend nor the recent
\* order count that would be observed for any other identity.
C18_PartitionedByIdentity ==
  [][ \A p \in Procs : \A b \in Users :
        (run'[p] # run[p] /\ run'[p].request.userAddress # b) =>
          /\ SpendSeen' = SpendSeen
          /\ getRecentOrderCount(orderHistory', b, now')
               = getRecentOrderCount(orderHistory, b, now) ]_vars

\* the number of the times in log that lie inside the hour that ends at t
InWindow(log, t) == Cardinality({ i \in DOMAIN log : t - log[i] < HOUR })

\* C19: recordOrder appends the current time to the identity's history and
\* drops the entries that are outside the trailing hour, and
\* getRecentOrderCount returns exactly the number of the identity's recorded
\* attempts that lie inside the trailing hour at the time of the call, as
\* does the count the evaluation context is given.
C19_TrackerCountsWindow ==
  [][ \A u \in Users :
        /\ getRecentOrderCount(orderHistory', u, now') = InWindow(attempts'[u], now')
        /\ attempts'[u] # attempts[u] =>
             /\ attempts'[u] = Append(attempts[u], now)
             /\ orderHistory'[u][Len(orderHistory'[u])] = now
             /\ \A i \in DOMAIN orderHistory'[u] : now - orderHistory'[u][i] < HOUR
             /\ Len(orderHistory'[u]) = InWindow(attempts[u], now) + 1
             /\ preview'.context.recentOrderCount = InWindow(attempts[u], now) ]_vars

\* of three attempts of an identity the first has left the window and two
\* are inside it, one of them half an hour old
C19_Witness ==
  \E u \in Users :
    /\ Len(attempts[u]) = 3
    /\ attempts[u][1] = now - HOUR
    /\ attempts[u][2] = now - 1
    /\ attempts[u][3] = now
    /\ orderHistory[u] = << now - 1, now >>
    /\ getRecentOrderCount(orderHistory, u, now) = 2

\* C20: a call whose decision is not REJECT (APPROVE, CONFIRM or DELAY) has
\* its order built and is run through Reception, then Approval, then Payment
\* until a stage rejects or fails: when it has returned, its message carries
\* the order, a status the pipeline set last, and the record of each stage
\* only after the stage before it let the run through.
C20_NonRejectRunsPipeline ==
  \A p \in Procs :
    (run[p].pc = "done" /\ run[p].aiDecision.decision \in {"approve", "confirm", "delay"}) =>
      /\ run[p].message.order.id = run[p].orderId
      /\ run[p].message.trace # << >>
      /\ run[p].message.status \in {"completed", "rejected", "failed"}
      /\ run[p].message.approval # NoRecord => run[p].message.reception.result = "pass"
      /\ run[p].message.payment # NoRecord => run[p].message.approval.result = "approved"

\* C21: whenever executeTransfer reported success for a run, the run that
\* has returned is COMPLETED and its Payment record carries the transaction
\* hash the executor gave.
C21_ExecutorSuccessCompletes ==
  \A p \in Procs :
    (run[p].pc = "done" /\ run[p].transferResult.success) =>
      /\ run[p].message.status = "completed"
      /\ run[p].message.payment.txHash # ""
      /\ run[p].message.payment.txHash = run[p].transferResult.txHash

\* C22: in the step in which executeTransfer reports a failure for a run,
\* the run returns FAILED, its error, the message of its Payment record and
\* the error of the response are the reason the executor reported, and the
\* ledger is left as it was; no second transfer is made.
C22_ExecutorFailureFails ==
  [][ \A p \in Procs :
        ( /\ run[p].pc = "transfer"
          /\ run'[p].pc # "transfer"
          /\ ~run'[p].transferResult.success )
        => /\ run'[p].pc = "done"
           /\ run'[p].message.status = "failed"
           /\ run'[p].message.error = run'[p].transferResult.error
           /\ run'[p].message.payment.result = "failed"
           /\ run'[p].message.payment.message = run'[p].transferResult.error
           /\ run'[p].response.error = run'[p].transferResult.error
           /\ ~run'[p].response.success
           /\ run'[p].transfers = 1
           /\ run'[p].commits = 0
           /\ ledger' = ledger ]_vars

\* a transfer failed with the reason "Transfer failed", and the run returned
\* FAILED with that reason in its error and in its Payment record
C22_Witness ==
  \E p \in Procs :
    /\ run[p].pc = "done"
    /\ run[p].transfers = 1
    /\ ~run[p].transferResult.success
    /\ run[p].transferResult.error = "Transfer failed"
    /\ run[p].message.status = "failed"
    /\ run[p].message.error = "Transfer failed"
    /\ run[p].message.payment.message = "Transfer failed"
    /\ run[p].commits = 0

\* C23: a run handed to the Approval stage with a previousAgent other than
\* reception returns from it at once, REJECTED with the reason "Invalid
\* processing pipeline" whatever its price and the ledger, with an unsigned
\* Approval record; the ledger is not touched (no snapshot, no lazy reset),
\* no transfer is made and no Payment record is written.
C23_ApprovalRefusesForeignRun ==
  [][ \A p \in Procs :
        ( /\ run[p].pc = "approval"
          /\ run'[p] # run[p]
          /\ run[p].message.previousAgent # "reception" )
        => /\ run'[p].pc = "done"
           /\ run'[p].message.status = "rejected"
           /\ run'[p].message.error = "Invalid processing pipeline"
           /\ run'[p].message.approval = StepRecord("rejected", "Invalid pipeline", FALSE, "")
           /\ run'[p].message.payment = NoRecord
           /\ run'[p].transfers = 0
           /\ ledger' = ledger ]_vars

\* a run of price 1.5 that did not come from Reception was refused for the
\* pipeline, not for its price, and the ledger whose window has elapsed was
\* not reset
C23_Witness ==
  \E p \in Procs :
    /\ run[p].pc = "done"
    /\ run[p].message.order.price = 150
    /\ run[p].message.previousAgent = "approval"
    /\ run[p].message.approval.message = "Invalid pipeline"
    /\ now - ledger.lastResetTime >= DAY
    /\ ledger.dailySpending = 995

\* C24: a stage that is handed a run whose previousAgent is not the one it
\* expects (Approval expects reception, Payment expects approval) ends the
\* run at once with the status REJECTED.
C24_ForeignRunRejected ==
  [][ \A p \in Procs :
        ( /\ run'[p] # run[p]
          /\ \/ run[p].pc = "approval" /\ run[p].message.previousAgent # "reception"
             \/ run[p].pc = "payment" /\ run[p].message.previousAgent # "approval" )
        => /\ run'[p].pc = "done"
           /\ run'[p].message.error = "Invalid processing pipeline"
           /\ run'[p].message.status = "rejected" ]_vars

\* C25: a run that has returned carries a Payment record only beside an
\* Approval record approved, and an Approval record only beside a Reception
\* record pass; and once a stage had set REJECTED or FAILED no stage set a
\* status after it, and no transfer was made unless Approval had approved.
C25_OnlyExecutedStagesRecorded ==
  \A p \in Procs :
    run[p].pc = "done" =>
      LET m == run[p].message
      IN  /\ m.payment # NoRecord => m.approval.result = "approved"
          /\ m.approval # NoRecord => m.reception.result = "pass"
          /\ \A i \in 1..(Len(m.trace) - 1) :
               m.trace[i] \notin {"rejected", "failed", "completed"}
          /\ m.status \in {"rejected", "failed"} /\ m.approval.result # "approved"
               => m.payment = NoRecord /\ run[p].transfers = 0
          /\ m.reception.result = "fail" => m.approval = NoRecord

\* the Approval stage rejected a run Reception had passed, and the run
\* returned with those two records and no Payment record
C25_Witness ==
  \E p \in Procs :
    /\ run[p].pc = "done"
    /\ run[p].message.status = "rejected"
    /\ run[p].message.reception.result = "pass"
    /\ run[p].message.approval.result = "rejected"
    /\ run[p].message.payment = NoRecord
    /\ run[p].transfers = 0

\* C26: a call of processOrderWithAI on an orchestrator that is not
\* initialized returns in the same step: no message is built and no stage
\* runs, executeTransfer is not called, the ledger and the tracker are as they
\* were, and the response carries no order id, the error "Orchestrator not
\* initialized" and a decision whose only step is the failed System Check.
C26_NotInitializedAborts ==
  [][ \A p \in Procs :
        (~isInitialized /\ run[p].pc = "idle" /\ run'[p].pc # "idle") =>
          /\ run'[p].pc = "done"
          /\ run'[p].message = NoMessage
          /\ run'[p].transfers = 0
          /\ run'[p].commits = 0
          /\ ledger' = ledger
          /\ orderHistory' = orderHistory
          /\ attempts' = attempts
          /\ ~run'[p].response.success
          /\ run'[p].response.orderId = ""
          /\ run'[p].response.error = "Orchestrator not initialized"
          /\ run'[p].aiDecision.decision = "reject"
          /\ run'[p].aiDecision.confidence = 0
          /\ run'[p].aiDecision.reasoning = << Step("System Check", "fail", 100) >> ]_vars

\* a call returned from the uninitialized orchestrator; initialize was called
\* afterwards and a later call is on its way through the pipeline
C26_Witness ==
  /\ run["order_1"].pc = "done"
  /\ run["order_1"].response.error = "Orchestrator not initialized"
  /\ run["order_1"].message = NoMessage
  /\ isInitialized
  /\ run["order_2"].pc = "receptionSign"


\* C27: when the Reception stage is handed a malformed order (an empty or
\* blank item, a price of zero or less, a currency other than USDT, a user or
\* merchant address that is empty or does not start with 0x), its step ends
\* the run REJECTED with a 'fail' Reception record that is not signed and whose
\* message is the run's error; no Approval or Payment record exists, no
\* transfer is attempted, nothing is committed and the ledger is as it was.
\* A well-formed order goes on to the signer instead.
C27_MalformedOrderRejected ==
  [][\A p \in Procs :
       (run[p].pc = "reception" /\ run'[p] # run[p]) =>
         LET order     == run[p].message.order
             malformed == \/ \A i \in DOMAIN order.item : order.item[i] = " "
                          \/ order.price <= 0
                          \/ order.currency # "USDT"
                          \/ Len(order.userAddress) < 2
                          \/ SubSeq(order.userAddress, 1, 2) # <<"0", "x">>
                          \/ Len(order.merchantAddress) < 2
                          \/ SubSeq(order.merchantAddress, 1, 2) # <<"0", "x">>
         IN  IF malformed
               THEN /\ run'[p].pc = "done"
                    /\ run'[p].message.status = "rejected"
                    /\ run'[p].message.reception.result = "fail"
                    /\ run'[p].message.reception.signature = FALSE
                    /\ run'[p].message.reception.message # ""
                    /\ run'[p].message.error = run'[p].message.reception.message
                    /\ run'[p].message.approval = NoRecord
                    /\ run'[p].message.payment = NoRecord
                    /\ run'[p].message.order = order
                    /\ run'[p].transfers = 0
                    /\ run'[p].commits = 0
                    /\ ledger' = ledger
               ELSE /\ run'[p].pc = "receptionSign"
                    /\ run'[p].message.status = "validating"
                    /\ run'[p].message.reception = NoRecord]_vars

\* an order in a currency other than USDT, well-formed otherwise, was
\* rejected by the Reception stage
C27_Witness ==
  \E p \in Procs :
    /\ run[p].pc = "done"
    /\ run[p].message.order.currency = "ETH"
    /\ run[p].message.order.price > 0
    /\ run[p].message.status = "rejected"
    /\ run[p].message.reception.result = "fail"
    /\ run[p].message.reception.message = "Only USDT payments are accepted"
    /\ run[p].message.approval = NoRecord


\* the stage whose signer a run at pc is waiting for
SigningStage(pc) ==
  CASE pc = "receptionSign" -> "reception"
    [] pc = "approvalSign"  -> "approval"
    [] pc = "paymentSign"   -> "payment"
    [] OTHER                -> "none"

\* C28: when the signer fails inside a stage, the run ends in a terminal
\* status other than COMPLETED with an error, no later stage is invoked (no
\* record of a later stage, no further transfer, no commit), and the returned
\* run shows the outcome of the failing stage: it holds that stage's record.
C28_SignerFailureIsStageFailure ==
  [][\A p \in Procs :
       (/\ SigningStage(run[p].pc) # "none"
        /\ run'[p].pc = "done"
        /\ run'[p].message.status = "failed") =>
         LET stage == SigningStage(run[p].pc)
             m     == run'[p].message
         IN  /\ m.status \in {"failed", "rejected"}
             /\ m.error # ""
             /\ ~run'[p].response.success
             /\ stage = "reception" => m.approval = NoRecord /\ m.payment = NoRecord
             /\ stage = "approval" => m.payment = NoRecord
             /\ run'[p].transfers = run[p].transfers
             /\ run'[p].commits = 0
             /\ ledger' = ledger
             /\ m[stage] # NoRecord]_vars


\* C29: for every order id at most one transfer is submitted to the
\* settlement executor.  Every call has an order id of its own; a run
\* submits a transfer only when it has submitted none, and only as it enters
\* the Payment stage's wait for the executor; when the executor has answered
\* with a failure the run ends in that step without another transfer; and a
\* run that has returned never takes another step, so what Payment returned
\* stays the result for that order id.
C29_OneTransferPerOrder ==
  [][\A p \in Procs :
          /\ run'[p].transfers # run[p].transfers =>
               /\ run[p].transfers = 0 /\ run'[p].transfers = 1
               /\ run[p].pc = "approvalSign" /\ run'[p].pc = "transfer"
          /\ run[p].orderId # "" => run'[p].orderId = run[p].orderId
          /\ (run[p].pc = "transfer" /\ run'[p] # run[p] /\ ~run'[p].transferResult.success) =>
               /\ run'[p].pc = "done"
               /\ run'[p].message.status = "failed"
               /\ run'[p].transfers = 1
          /\ run[p].pc = "done" => run'[p] = run[p]]_vars

\* two orders have returned after one transfer each: the executor failed the
\* first, which was not retried, and confirmed the second
C29_Witness ==
  /\ run["order_1"].pc = "done" /\ run["order_2"].pc = "done"
  /\ run["order_1"].orderId # run["order_2"].orderId
  /\ run["order_1"].transfers = 1 /\ run["order_2"].transfers = 1
  /\ ~run["order_1"].transferResult.success
  /\ run["order_1"].message.status = "failed"
  /\ run["order_2"].message.status = "completed"


\* C30: a call whose intent is a cancellation never proceeds to payment.
\* Whatever the price, the quantity, the agent's balance, the ledger, the
\* tracker and the hour, the step of its decision layer gives a decision
\* whose first step is Intent Validation, fail, weight 1.0 and whose outcome
\* is REJECT, and returns the call: no pipeline stage has run (no message, no
\* stage record, no transfer, no commit, nothing added to the ledger).
C30_CancellationNeverPays ==
  [][\A p \in Procs :
       (/\ run[p].pc = "balance"
        /\ run[p].request.intent = "cancel_order"
        /\ run'[p] # run[p]) =>
         /\ run'[p].aiDecision.reasoning[1] = Step("Intent Validation", "fail", 100)
         /\ run'[p].aiDecision.decision = "reject"
         /\ run'[p].pc = "done"
         /\ run'[p].message = NoMessage
         /\ run'[p].transfers = 0
         /\ run'[p].commits = 0
         /\ ~run'[p].response.success
         /\ ~run'[p].response.pipeline
         /\ run'[p].response.transaction = "none"
         /\ ledger'.dailySpending <= ledger.dailySpending]_vars

\* a cancellation that every other check of the engine passes (a price within
\* the ceilings, a funded agent, an empty ledger, no recent order, business
\* hours) was rejected
C30_Witness ==
  \E p \in Procs :
    /\ run[p].pc = "done"
    /\ run[p].request.intent = "cancel_order"
    /\ run[p].aiDecision.decision = "reject"
    /\ \A i \in 2..Len(run[p].aiDecision.reasoning) :
         run[p].aiDecision.reasoning[i].result = "pass"
    /\ run[p].message = NoMessage


\* C31: every call that enters the pipeline returns normally with a terminal
\* status, provided every awaited external call returns or throws.  A call
\* that has been handed to the stages and waits for a signer or for the
\* executor does return; a returned call that was handed to the stages has the
\* status COMPLETED, REJECTED or FAILED and a response built from the run; and
\* a failed validation (Reception record 'fail') or a policy refusal (Approval
\* record 'rejected') has the status REJECTED, with its reason as the error.
C31_PipelineReturnsTerminal ==
  /\ [](\A p \in Procs :
          (run[p].pc = "done" /\ run[p].message # NoMessage) =>
             /\ run[p].message.status \in {"completed", "rejected", "failed"}
             /\ run[p].response.pipeline
             /\ run[p].response.success <=> run[p].message.status = "completed"
             /\ run[p].message.reception.result = "fail" =>
                  /\ run[p].message.status = "rejected"
                  /\ run[p].message.error = run[p].message.reception.message
                  /\ run[p].message.error # ""
             /\ run[p].message.approval.result = "rejected" =>
                  /\ run[p].message.status = "rejected"
                  /\ run[p].message.error = run[p].message.approval.message
                  /\ run[p].message.error # "")
  /\ \A p \in Procs :
       (run[p].pc \in {"balance", "receptionSign", "approvalSign", "transfer", "paymentSign"})
         ~> (run[p].pc = "done")

\* a call that the engine let through was refused by the Approval stage's
\* policy and has returned REJECTED
C31_Witness ==
  \E p \in Procs :
    /\ run[p].pc = "done"
    /\ run[p].message # NoMessage
    /\ run[p].message.approval.result = "rejected"
    /\ run[p].message.status = "rejected"


\* C32: in the single-agent path an order that the policy refuses (a currency
\* that is not allowed, an amount above the single-payment limit, an amount of
\* zero or less, or a projected spend above the daily limit) returns without
\* a payment being initiated and without anything recorded as spent; and the
\* spending tracker grows only in the step in which payWithAgent answers a
\* success, by the price of that order.
C32_RefusedOrderNeverPays ==
  [][LET current == IF now - ledger.lastResetTime >= DAY THEN 0 ELSE ledger.dailySpending
     IN  /\ \A p \in Procs :
              (run[p].pc = "idle" /\ run'[p].pc # "idle") =>
                LET order == run'[p].request
                IN  ( \/ order.currency \notin config.allowedCurrencies
                      \/ order.price > config.maxSinglePayment
                      \/ order.price <= 0
                      \/ current + order.price > config.maxDailySpending ) =>
                      /\ run'[p].pc = "done"
                      /\ run'[p].transfers = 0
                      /\ run'[p].commits = 0
                      /\ ~run'[p].response.success
                      /\ run'[p].response.error # ""
                      /\ ledger'.dailySpending <= ledger.dailySpending
         /\ ledger'.dailySpending > ledger.dailySpending =>
              \E p \in Procs :
                /\ run[p].pc = "pay" /\ run'[p].pc = "done"
                /\ run[p].transfers = 1
                /\ run'[p].transferResult.success
                /\ run'[p].response.success
                /\ run'[p].commits = 1
                /\ ledger'.dailySpending = current + run[p].request.price]_vars

\* an order of 1.5 USDT was refused for the single-payment limit of 1 USDT
\* without a payment, after an order of 0.5 USDT was paid and recorded
C32_Witness ==
  /\ run["order_1"].pc = "done" /\ run["order_2"].pc = "done"
  /\ run["order_1"].request.price = 50
  /\ run["order_1"].commits = 1
  /\ run["order_2"].request.price = 150 /\ run["order_2"].request.currency = "USDT"
  /\ run["order_2"].response.error = "Payment amount exceeds maximum single payment limit"
  /\ run["order_2"].transfers = 0
  /\ ledger.dailySpending = 50


\* C33: the suggestions of a decision result hold, for each fail step of the
\* categories amount, daily limit, balance and frequency, the remediation
\* string of that category, hold nothing else, and hold no string twice,
\* whatever the decision, APPROVE included.
C33_SuggestionsForEveryFail ==
  preview.result # NoDecision =>
    LET reasoning   == preview.result.reasoning
        suggestions == preview.result.suggestions
        remediation == [ check \in {"Amount Validation", "Daily Limit Check",
                                    "Balance Check", "Rate Limit Check"} |->
                         CASE check = "Amount Validation" -> "Try a smaller order amount"
                           [] check = "Daily Limit Check" -> "Wait until tomorrow for daily limit reset"
                           [] check = "Balance Check"     -> "Fund the payment agent with more USDT"
                           [] check = "Rate Limit Check"  -> "Wait a few minutes before ordering again" ]
    IN  /\ \A i \in DOMAIN reasoning :
             (reasoning[i].result = "fail" /\ reasoning[i].check \in DOMAIN remediation) =>
               \E j \in DOMAIN suggestions : suggestions[j] = remediation[reasoning[i].check]
        /\ \A j \in DOMAIN suggestions :
             \E i \in DOMAIN reasoning :
               /\ reasoning[i].result = "fail"
               /\ reasoning[i].check \in DOMAIN remediation
               /\ suggestions[j] = remediation[reasoning[i].check]
        /\ \A j, k \in DOMAIN suggestions : j # k => suggestions[j] # suggestions[k]


\* C37: a decision result whose decision is APPROVE never has the risk level
\* critical, and none of its steps is a fail.
C37_ApprovedNeverCritical ==
  (preview.result # NoDecision /\ preview.result.decision = "approve") =>
    /\ preview.result.riskLevel # "critical"
    /\ \A i \in DOMAIN preview.result.reasoning :
         preview.result.reasoning[i].result # "fail"


C35_NoTransferUncounted ==
  \A p \in Procs :
    (run[p].pc = "done" /\ run[p].transfers = 1 /\ run[p].transferResult.success) =>
      /\ run[p].commits = 1
      /\ run[p].committed = run[p].message.order.price


\* C36: every transfer the orchestrator submits to the executor has an amount
\* greater than 0 and not greater than the policy's maxSinglePayment, whatever
\* updateConfig has made of the engine's thresholds: the amount is the price
\* of the request, and the run has an approved Approval record for it.
C36_TransferAmountWithinCeiling ==
  [][\A p \in Procs :
       run'[p].transfers > run[p].transfers =>
         LET amount == run'[p].message.order.price
         IN  /\ amount = run[p].request.price
             /\ amount > 0
             /\ amount <= POLICY.maxSinglePayment
             /\ run'[p].message.reception.result = "pass"
             /\ run'[p].message.approval.result = "approved"]_vars

\* updateConfig has raised the engine's ceiling to 2.0; an order of 1.5, which
\* the engine then approved, was refused by the Approval stage without a
\* transfer, and an order of 0.05 has been handed to the executor
C36_Witness ==
  /\ config.maxSinglePayment = 200
  /\ run["order_1"].pc = "done"
  /\ run["order_1"].request.price = 150
  /\ run["order_1"].aiDecision.decision = "approve"
  /\ run["order_1"].message.approval.result = "rejected"
  /\ run["order_1"].transfers = 0
  /\ run["order_2"].pc = "transfer"
  /\ run["order_2"].transfers = 1


\* C38: the status the legacy wrapper processOrder reports for a call with
\* the intent buy_coffee is the status the run ended with: COMPLETED for a
\* completed run, FAILED for a failed one, and REJECTED for the runs that the
\* decision engine, Reception or Approval refused, and for no others.
C38_LegacyStatusIsFinalStatus ==
  \A p \in Procs :
    (run[p].pc = "done" /\ run[p].request.intent = "buy_coffee" /\ run[p].orderId # "") =>
      LET legacy == processOrder(run[p].response)
      IN  IF run[p].message = NoMessage
            THEN legacy.status = "rejected" <=> run[p].aiDecision.decision = "reject"
            ELSE legacy.status = run[p].message.status

=============================================================================
